---- MODULE Spec2Model ----
(***************************************************************************)
(* Compliance assistant (App component): the learning extractor, the       *)
(* learning selectors, the saved-analyses store and the Gap Review / Deep  *)
(* Dive orchestration, as a state machine over the component's state.      *)
(*                                                                         *)
(* Text is a sequence of one-character strings.  An optional JavaScript    *)
(* value (a field that may be undefined, a state that may be null) is a    *)
(* sequence of length 0 (absent) or 1 (present).                           *)
(***************************************************************************)
EXTENDS Integers, Sequences, FiniteSets, TLC

(***************************************************************************)
(* Bounds of the model                                                     *)
(***************************************************************************)
MaxFnAnalyses == 2      \* analyses in an input list of extractLearningsFromFeedback
MaxFnChanges == 2       \* suggested changes per analysis in such a list
MaxFnTime == 2          \* timestamps 1..MaxFnTime in such a list
MaxSectionLen == 2      \* characters in a document_section given to the selector
MaxFnLearnings == 2     \* learnings in an input list of the prompt selector
MaxFnDocs == 2          \* target documents given to the prompt selector

(***************************************************************************)
(* Program constants                                                       *)
(***************************************************************************)
MAX_NOTE_LENGTH == 100
MAX_ADOPTED_TEXT_LENGTH == 750
NAME_TAG_LENGTH == 20
DEFAULT_MAX_LEARNINGS_FOR_PROMPT == 7

(***************************************************************************)
(* Optional values                                                         *)
(***************************************************************************)
None == <<>>
Some(x) == <<x>>
IsSome(o) == Len(o) = 1
Val(o) == o[1]

(***************************************************************************)
(* Text                                                                    *)
(***************************************************************************)
Min2(a, b) == IF a < b THEN a ELSE b

\* String.prototype.toLowerCase, on the characters the model uses
LowerChar(c) == CASE c = "A" -> "a" [] c = "B" -> "b" [] OTHER -> c
toLowerCase(s) == [i \in 1..Len(s) |-> LowerChar(s[i])]

\* String.prototype.includes: t occurs in s as a contiguous substring
includes(s, t) ==
    \E i \in 0..(Len(s) - Len(t)) : \A j \in 1..Len(t) : s[i + j] = t[j]

\* String.prototype.substring(0, n)
substring0(s, n) == SubSeq(s, 1, Min2(n, Len(s)))

\* String.prototype.trim
RECURSIVE trimStart(_)
trimStart(s) == IF s # <<>> /\ Head(s) = " " THEN trimStart(Tail(s)) ELSE s
RECURSIVE trimEnd(_)
trimEnd(s) ==
    IF s # <<>> /\ s[Len(s)] = " " THEN trimEnd(SubSeq(s, 1, Len(s) - 1)) ELSE s
trim(s) == trimEnd(trimStart(s))

\* first / last position >= from at which t occurs in s (0 when there is none)
occursAt(s, t, i) == i + Len(t) - 1 <= Len(s) /\ \A j \in 1..Len(t) : s[i + j - 1] = t[j]
indexOf(s, t, from) ==
    LET hits == {i \in from..Len(s) : occursAt(s, t, i)}
    IN  IF hits = {} THEN 0 ELSE CHOOSE i \in hits : \A k \in hits : i <= k
lastIndexOf(s, t, from) ==
    LET hits == {i \in from..Len(s) : occursAt(s, t, i)}
    IN  IF hits = {} THEN 0 ELSE CHOOSE i \in hits : \A k \in hits : i >= k

(***************************************************************************)
(* The learning string.  A literal piece of the template is one element of *)
(* the text; user-supplied text is one element per character.              *)
(***************************************************************************)
TxtFeedbackFor == <<"Feedback for suggestion ">>
TxtRegarding == <<"regarding ", "'">>
TxtQuote == <<"'">>
TxtStatusSet == <<": User status set to ", "'">>
TxtQuoteDot == <<"'", ".">>
TxtNote == <<" Note: ", "\"">>
TxtAdopted == <<" Adopted Text: ", "\"">>
TxtDQuote == <<"\"">>
TxtDQuoteDot == <<"\"", ".">>
TxtEllipsis == <<"...">>

Undef == "undefined"
StatusOptions == {"Pending Review", "Actioned", "Not Applicable", "Considered - No Action"}

\* UserFeedback; an absent userFeedback object is NoFeedback
NoFeedback == [status |-> Undef, notes |-> None, lastUpdated |-> 0, finalAdoptedText |-> None]

\* JavaScript truthiness of an optional string
Truthy(o) == IsSome(o) /\ Val(o) # <<>>

analysisTypeLabel(type) == IF type = "challenge" THEN "Gap Review" ELSE "Deep Dive"
resultSource(analysis) == analysis.result

truncated(s, n) == substring0(s, n) \o (IF Len(s) > n THEN TxtEllipsis ELSE <<>>)

\* `(${analysisTypeLabel}: ${analysis.name.substring(0, 20)}...)`, the closing
\* "...)" as the four characters it is, since an analysis name may hold them
analysisNameTag(analysis) ==
    <<"(", analysisTypeLabel(analysis.type), ": ">>
    \o substring0(analysis.name, NAME_TAG_LENGTH) \o <<".", ".", ".", ")">>

\* the learningPoint template of extractLearningsFromFeedback
learningPoint(analysis, change) ==
    LET fb == change.userFeedback
    IN  TxtFeedbackFor \o TxtRegarding \o change.document_section \o TxtQuote
        \o <<" ">> \o analysisNameTag(analysis)
        \o TxtStatusSet \o <<fb.status>> \o TxtQuoteDot
        \o (IF Truthy(fb.notes)
            THEN TxtNote \o truncated(Val(fb.notes), MAX_NOTE_LENGTH) \o TxtDQuoteDot
            ELSE <<>>)
        \o (IF Truthy(fb.finalAdoptedText)
            THEN TxtAdopted \o truncated(Val(fb.finalAdoptedText), MAX_ADOPTED_TEXT_LENGTH)
                 \o TxtDQuoteDot
            ELSE <<>>)

\* the condition under which a change's feedback becomes a learning
qualifiesNoStatusGuard(fb) ==
    \/ fb.status = "Actioned"
    \/ Truthy(fb.finalAdoptedText)
    \/ (fb.status = "Not Applicable" /\ Truthy(fb.notes) /\ trim(Val(fb.notes)) # <<>>)
qualifies(fb) ==
    /\ fb.status # Undef
    /\ \/ fb.status = "Actioned"
       \/ Truthy(fb.finalAdoptedText)
       \/ (fb.status = "Not Applicable" /\ Truthy(fb.notes) /\ trim(Val(fb.notes)) # <<>>)

(***************************************************************************)
(* Array.prototype.sort((a,b) => time(b) - time(a)): stable, newest first  *)
(***************************************************************************)
RECURSIVE insertByTimestamp(_, _)
insertByTimestamp(x, sorted) ==
    IF sorted = <<>> THEN <<x>>
    ELSE IF Head(sorted).timestamp <= x.timestamp THEN <<x>> \o sorted
    ELSE <<Head(sorted)>> \o insertByTimestamp(x, Tail(sorted))
RECURSIVE sortByTimestampDesc(_)
sortByTimestampDesc(list) ==
    IF list = <<>> THEN <<>>
    ELSE insertByTimestamp(Head(list), sortByTimestampDesc(Tail(list)))

(***************************************************************************)
(* extractLearningsFromFeedback.  The loops are unrolled as recursions     *)
(* over the position in the sorted list (a) and in suggested_changes (c);  *)
(* each collected entry keeps, next to its text, the position it came from *)
(* and the timestamp of its analysis.                                      *)
(***************************************************************************)
capReached(learnings, maxLearnings) ==
    IsSome(maxLearnings) /\ Len(learnings) >= Val(maxLearnings)

RECURSIVE scanChangesNoBreak(_, _, _, _, _)
scanChangesNoBreak(analysis, a, c, learnings, maxLearnings) ==
    IF c > Len(resultSource(analysis).suggested_changes) THEN learnings
    ELSE LET change == resultSource(analysis).suggested_changes[c]
             next == IF qualifies(change.userFeedback)
                     THEN Append(learnings,
                                 [a |-> a, c |-> c, timestamp |-> analysis.timestamp,
                                  text |-> learningPoint(analysis, change)])
                     ELSE learnings
         IN  scanChangesNoBreak(analysis, a, c + 1, next, maxLearnings)
RECURSIVE scanChanges(_, _, _, _, _)
scanChanges(analysis, a, c, learnings, maxLearnings) ==
    IF c > Len(resultSource(analysis).suggested_changes) THEN learnings
    ELSE IF capReached(learnings, maxLearnings) THEN learnings
    ELSE LET change == resultSource(analysis).suggested_changes[c]
             next == IF qualifies(change.userFeedback)
                     THEN Append(learnings,
                                 [a |-> a, c |-> c, timestamp |-> analysis.timestamp,
                                  text |-> learningPoint(analysis, change)])
                     ELSE learnings
         IN  scanChanges(analysis, a, c + 1, next, maxLearnings)

RECURSIVE scanAnalyses(_, _, _, _)
scanAnalyses(sortedAnalyses, a, learnings, maxLearnings) ==
    IF a > Len(sortedAnalyses) THEN learnings
    ELSE LET after == scanChanges(sortedAnalyses[a], a, 1, learnings, maxLearnings)
         IN  IF capReached(after, maxLearnings) THEN after
             ELSE scanAnalyses(sortedAnalyses, a + 1, after, maxLearnings)

sortedAnalysesOf(analyses) == sortByTimestampDesc(analyses)

extractEntries(analyses, maxLearnings) ==
    scanAnalyses(sortedAnalysesOf(analyses), 1, <<>>, maxLearnings)
extractLearningsFromFeedback(analyses, maxLearnings) ==
    LET entries == extractEntries(analyses, maxLearnings)
    IN  [i \in 1..Len(entries) |-> entries[i].text]

(***************************************************************************)
(* selectContextualLearningsForChallengePrompt                             *)
(***************************************************************************)
\* learningString.match(/regarding '(.*?)'/): the optional capture group 1
learningDocSectionMatch(learningString) ==
    LET i == indexOf(learningString, TxtRegarding, 1)
        j == IF i = 0 THEN 0 ELSE indexOf(learningString, TxtQuote, i + Len(TxtRegarding))
    IN  IF i = 0 \/ j = 0 THEN None
        ELSE Some(SubSeq(learningString, i + Len(TxtRegarding), j - 1))

\* match(/: User status set to '(.*)'\.( Note: ".*")?( Adopted Text: ".*")?/),
\* groups 1..3 concatenated; the whole string when there is no match
coreLearningContent(learningString) ==
    LET p == indexOf(learningString, TxtStatusSet, 1)
        g1 == IF p = 0 THEN 0 ELSE p + Len(TxtStatusSet)
        q == IF p = 0 THEN 0 ELSE lastIndexOf(learningString, TxtQuoteDot, g1)
        r == q + Len(TxtQuoteDot)
        optional(lit, at) ==
            LET e == IF occursAt(learningString, lit, at)
                     THEN lastIndexOf(learningString, TxtDQuote, at + Len(lit))
                     ELSE 0
            IN  IF e = 0 THEN <<>> ELSE SubSeq(learningString, at, e)
        g2 == optional(TxtNote, r)
        g3 == optional(TxtAdopted, r + Len(g2))
    IN  IF p = 0 \/ q = 0 THEN learningString
        ELSE SubSeq(learningString, g1, q - 1) \o g2 \o g3

\* the test that makes a learning relevant to one target document
docMatchesEitherWay(docSectionFromLearning, companyDoc) ==
    \/ includes(docSectionFromLearning, toLowerCase(companyDoc.name))
    \/ includes(toLowerCase(companyDoc.name), docSectionFromLearning)
docMatches(docSectionFromLearning, companyDoc) ==
    includes(docSectionFromLearning, toLowerCase(companyDoc.name))

\* one iteration of the outer loop: st = [contextualLearnings, addedLearningContents]
selectStep(st, learningString, currentCompanyDocsForChallenge) ==
    LET match == learningDocSectionMatch(learningString)
    IN  IF ~Truthy(match) THEN st
        ELSE LET docSectionFromLearning == toLowerCase(Val(match))
                 key == docSectionFromLearning \o coreLearningContent(learningString)
                 hit == \E d \in 1..Len(currentCompanyDocsForChallenge) :
                            docMatches(docSectionFromLearning,
                                       currentCompanyDocsForChallenge[d])
             IN  IF hit /\ key \notin st.addedLearningContents
                 THEN [contextualLearnings |-> Append(st.contextualLearnings, learningString),
                       addedLearningContents |-> st.addedLearningContents \cup {key}]
                 ELSE st

RECURSIVE selectLoop(_, _, _, _, _)
selectLoop(st, allPotentialLearnings, l, currentCompanyDocsForChallenge, maxLearningsForPrompt) ==
    IF l > Len(allPotentialLearnings) THEN st
    ELSE IF Len(st.contextualLearnings) >= maxLearningsForPrompt THEN st
    ELSE selectLoop(selectStep(st, allPotentialLearnings[l], currentCompanyDocsForChallenge),
                    allPotentialLearnings, l + 1,
                    currentCompanyDocsForChallenge, maxLearningsForPrompt)

selectContextualLearningsForChallengePrompt(allPotentialLearnings, currentCompanyDocsForChallenge, maxLearningsForPrompt) ==
    IF Len(currentCompanyDocsForChallenge) = 0 \/ Len(allPotentialLearnings) = 0 THEN <<>>
    ELSE selectLoop([contextualLearnings |-> <<>>, addedLearningContents |-> {}],
                    allPotentialLearnings, 1,
                    currentCompanyDocsForChallenge, maxLearningsForPrompt).contextualLearnings

(***************************************************************************)
(* selectContextualLearningsForChat                                        *)
(***************************************************************************)
\* the top-up loop over generalRecentLearnings, from position g
RECURSIVE topUpLearnings(_, _, _, _)
topUpLearnings(combinedLearnings, generalRecentLearnings, g, maxTotalLearnings) ==
    IF g > Len(generalRecentLearnings) THEN combinedLearnings
    ELSE IF Len(combinedLearnings) >= maxTotalLearnings THEN combinedLearnings
    ELSE LET generalLearning == generalRecentLearnings[g]
             found == \E i \in 1..Len(combinedLearnings) :
                          combinedLearnings[i] = generalLearning
         IN  topUpLearnings(IF found THEN combinedLearnings
                            ELSE Append(combinedLearnings, generalLearning),
                            generalRecentLearnings, g + 1, maxTotalLearnings)

\* learning.includes(`(${activeAnalysisType}: ${activeAnalysisNameSub}...)`)
isActiveAnalysisSpecific(learning, activeAnalysis) ==
    includes(learning, analysisNameTag(activeAnalysis))

selectContextualLearningsForChat(generalRecentLearnings, activeAnalysis, allSavedAnalyses, maxTotalLearnings) ==
    IF ~IsSome(activeAnalysis) THEN generalRecentLearnings
    ELSE LET fullPotentialLearnings == extractLearningsFromFeedback(allSavedAnalyses, None)
             activeAnalysisSpecificLearnings ==
                 SelectSeq(fullPotentialLearnings,
                           LAMBDA learning :
                               isActiveAnalysisSpecific(learning, Val(activeAnalysis)))
             combinedLearnings ==
                 IF Len(activeAnalysisSpecificLearnings) < maxTotalLearnings
                 THEN topUpLearnings(activeAnalysisSpecificLearnings,
                                     generalRecentLearnings, 1, maxTotalLearnings)
                 ELSE activeAnalysisSpecificLearnings
         IN  SubSeq(combinedLearnings, 1, Min2(maxTotalLearnings, Len(combinedLearnings)))

(***************************************************************************)
(* generateGapReview: the context part of the user prompt, built from the  *)
(* chunks retrieveContextFromVertexAI returned.  A targeted document list  *)
(* is the set of its ids, a joined string a sequence of pieces.            *)
(***************************************************************************)
TxtFromRegulatory == <<"From Regulatory Document ">>
TxtFromCompany == <<"From Company Document ">>
TxtChunkSeparator == <<"\n\n---\n\n">>
TxtRetrievedRegulatory == "Retrieved Targeted Regulatory Updates Context (from Vertex AI RAG):"
TxtNoRegulatory == "No specific Regulatory document context retrieved from Vertex AI RAG; using summaries of the targeted documents."
TxtRetrievedCompany == "Retrieved Company's Internal Documents Context (from Vertex AI RAG):"
TxtNoCompany == "No specific company document context retrieved from Vertex AI RAG; relying on general document names/types provided."

\* relevantChunks.filter(c => c.documentType === type && targeted.some(d => d.id === c.documentId))
chunksOfTypeOnly(relevantChunks, type, targeted) ==
    SelectSeq(relevantChunks, LAMBDA c : c.documentType = type)
chunksOf(relevantChunks, type, targeted) ==
    SelectSeq(relevantChunks,
              LAMBDA c : c.documentType = type /\ c.documentId \in targeted)

\* .map(c => `From ... "${c.documentName}" (...):\n${c.text}`).join('\n\n---\n\n'); the document id stands for its name
RECURSIVE joinChunks(_, _)
joinChunks(chunks, literal) ==
    IF chunks = <<>> THEN <<>>
    ELSE literal \o <<Head(chunks).documentId>> \o Head(chunks).text
         \o (IF Len(chunks) > 1 THEN TxtChunkSeparator ELSE <<>>)
         \o joinChunks(Tail(chunks), literal)

\* userPromptContext: for each partition the heading chosen by the truthiness
\* of the joined string, the chunks that went into it and the fallback used
gapUserPromptContext(relevantChunks, targetedRegulatoryContent, targetedCompanyDocs) ==
    LET austracChunks == chunksOf(relevantChunks, "austrac", targetedRegulatoryContent)
        companyChunks == chunksOf(relevantChunks, "company", targetedCompanyDocs)
        austracContextFromChunks == joinChunks(austracChunks, TxtFromRegulatory)
        companyContextFromChunks == joinChunks(companyChunks, TxtFromCompany)
    IN  [regulatoryHeading |-> IF austracContextFromChunks # <<>>
                               THEN TxtRetrievedRegulatory ELSE TxtNoRegulatory,
         regulatoryChunks |-> IF austracContextFromChunks # <<>> THEN austracChunks ELSE <<>>,
         regulatoryText |-> austracContextFromChunks,
         summariesOf |-> IF austracContextFromChunks # <<>> THEN {}
                         ELSE targetedRegulatoryContent,
         companyHeading |-> IF companyContextFromChunks # <<>>
                            THEN TxtRetrievedCompany ELSE TxtNoCompany,
         companyChunks |-> IF companyContextFromChunks # <<>> THEN companyChunks ELSE <<>>,
         companyText |-> companyContextFromChunks,
         namesOf |-> IF companyContextFromChunks # <<>> THEN {} ELSE targetedCompanyDocs]

(***************************************************************************)
(* The repair of the generator text before JSON.parse, in generateGapReview *)
(* and generateDeepDive.  A text is a sequence of tokens: the punctuation  *)
(* of JSON, the double quote, the code fence, white space and words (runs  *)
(* of word characters).                                                    *)
(***************************************************************************)
Quote == "\""
Fence == "code fence"      \* three backquotes
WhiteSpace == {" ", "\n"}
WordTokens == {"w", "a", "json", "timeline", "priority_level", "High", "Medium", "Low"}

\* the end of the longest run of tokens of S that starts at i
RECURSIVE skipRun(_, _, _)
skipRun(t, i, S) == IF i <= Len(t) /\ t[i] \in S THEN skipRun(t, i + 1, S) ELSE i
at(t, i) == IF i >= 1 /\ i <= Len(t) THEN t[i] ELSE "end of text"

RECURSIVE trimWhiteSpaceEnd(_)
trimWhiteSpaceEnd(t) ==
    IF t # <<>> /\ t[Len(t)] \in WhiteSpace
    THEN trimWhiteSpaceEnd(SubSeq(t, 1, Len(t) - 1)) ELSE t
trimWhiteSpace(t) ==
    LET i == skipRun(t, 1, WhiteSpace) IN trimWhiteSpaceEnd(SubSeq(t, i, Len(t)))

\* fenceRegex, a fence, a word, white space, anything, white space and a fence:
\* match[2].trim() when the text is fenced and match[2] is not empty
stripFence(t) ==
    IF Len(t) >= 2 /\ t[1] = Fence /\ t[Len(t)] = Fence
    THEN LET j == skipRun(t, 2, WordTokens)
             k == skipRun(t, j, WhiteSpace)
             inner == trimWhiteSpaceEnd(SubSeq(t, k, Len(t) - 1))
         IN  IF inner # <<>> THEN trimWhiteSpace(inner) ELSE t
    ELSE t

\* malformationRegex1 /(})\s*([a-zA-Z_][a-zA-Z0-9_]*)\s*({)/g at position i:
\* the position of its last token, 0 without a match
endOfWordBetweenObjects(t, i) ==
    LET j == skipRun(t, i + 1, WhiteSpace)
        k == skipRun(t, j, WordTokens)
        l == skipRun(t, k, WhiteSpace)
    IN  IF at(t, i) = "}" /\ k > j /\ at(t, l) = "{" THEN l ELSE 0
\* jsonStr.replace(malformationRegex1, '$1, $3')
RECURSIVE fixWordBetweenObjects(_, _)
fixWordBetweenObjects(t, i) ==
    IF i > Len(t) THEN <<>>
    ELSE LET l == endOfWordBetweenObjects(t, i)
         IN  IF l > 0 THEN <<"}", ",", " ", "{">> \o fixWordBetweenObjects(t, l + 1)
             ELSE <<t[i]>> \o fixWordBetweenObjects(t, i + 1)

\* malformationRegex2 /(})\s*[a-zA-Z_][a-zA-Z0-9_]*\s*(,)/g
endOfWordBeforeComma(t, i) ==
    LET j == skipRun(t, i + 1, WhiteSpace)
        k == skipRun(t, j, WordTokens)
        l == skipRun(t, k, WhiteSpace)
    IN  IF at(t, i) = "}" /\ k > j /\ at(t, l) = "," THEN l ELSE 0
\* jsonStr.replace(malformationRegex2, '$1$2')
RECURSIVE fixWordBeforeComma(_, _)
fixWordBeforeComma(t, i) ==
    IF i > Len(t) THEN <<>>
    ELSE LET l == endOfWordBeforeComma(t, i)
         IN  IF l > 0 THEN <<"}", ",">> \o fixWordBeforeComma(t, l + 1)
             ELSE <<t[i]>> \o fixWordBeforeComma(t, i + 1)

\* missingPriorityKeyRegex /("timeline":\s*".*?",\s*)"(High|Medium|Low)"/g at
\* position i: the position of the quote that opens the priority, 0 without
\* a match.  .*? takes the fewest tokens of the line.
priorityAfterValue(t, m) ==
    LET n == skipRun(t, m + 2, WhiteSpace)
    IN  IF at(t, m) = Quote /\ at(t, m + 1) = "," /\ at(t, n) = Quote
           /\ at(t, n + 1) \in {"High", "Medium", "Low"} /\ at(t, n + 2) = Quote
        THEN n ELSE 0
startOfBarePriority(t, i) ==
    LET j == skipRun(t, i + 4, WhiteSpace)
        ends == {m \in (j + 1)..Len(t) :
                    /\ priorityAfterValue(t, m) > 0
                    /\ \A k \in (j + 1)..(m - 1) : t[k] # "\n"}
    IN  IF at(t, i) = Quote /\ at(t, i + 1) = "timeline" /\ at(t, i + 2) = Quote
           /\ at(t, i + 3) = ":" /\ at(t, j) = Quote /\ ends # {}
        THEN priorityAfterValue(t, CHOOSE m \in ends : \A k \in ends : m <= k)
        ELSE 0
\* jsonStr.replace(missingPriorityKeyRegex, '$1"priority_level": "$2"')
RECURSIVE fixMissingPriorityKey(_, _)
fixMissingPriorityKey(t, i) ==
    IF i > Len(t) THEN <<>>
    ELSE LET n == startOfBarePriority(t, i)
         IN  IF n > 0
             THEN SubSeq(t, i, n - 1)
                  \o <<Quote, "priority_level", Quote, ":", " ", Quote, t[n + 1], Quote>>
                  \o fixMissingPriorityKey(t, n + 3)
             ELSE <<t[i]>> \o fixMissingPriorityKey(t, i + 1)

\* the text handed to JSON.parse
repair(text) ==
    LET jsonStr == stripFence(trimWhiteSpace(text))
    IN  fixMissingPriorityKey(fixWordBeforeComma(fixWordBetweenObjects(jsonStr, 1), 1), 1)

(***************************************************************************)
(* generateDeepDive: the cross-document part of the user prompt, built     *)
(* from the chunks the second retrieval returned.                          *)
(***************************************************************************)
TxtFrom == <<"From ">>
TxtDeepDiveSeparator == <<"\n---\n">>
TxtRetrievedInternal == "Retrieved Internal Context (from other company docs via Vertex AI RAG):"
TxtNoOtherCompanyDocs == "No other relevant company documents found for cross-referencing."

\* companyDocChunks.filter(c => c.documentId !== targetDoc.id)
chunksOfAnyDoc(companyDocChunks, targetDocId) == companyDocChunks
chunksOfOtherDocs(companyDocChunks, targetDocId) ==
    SelectSeq(companyDocChunks, LAMBDA c : c.documentId # targetDocId)

\* .map(c => `From "${c.documentName}":\n${c.text}`).join('\n---\n')
RECURSIVE joinDeepDiveChunks(_)
joinDeepDiveChunks(chunks) ==
    IF chunks = <<>> THEN <<>>
    ELSE TxtFrom \o <<Head(chunks).documentId>> \o Head(chunks).text
         \o (IF Len(chunks) > 1 THEN TxtDeepDiveSeparator ELSE <<>>)
         \o joinDeepDiveChunks(Tail(chunks))

\* companyContext: the heading, the chunks quoted under it and their text
deepDiveCompanyContext(companyDocChunks, targetDocId) ==
    LET others == chunksOfOtherDocs(companyDocChunks, targetDocId)
    IN  IF Len(others) > 0
        THEN [heading |-> TxtRetrievedInternal, chunks |-> others,
              text |-> joinDeepDiveChunks(others)]
        ELSE [heading |-> TxtNoOtherCompanyDocs, chunks |-> <<>>, text |-> <<>>]

(***************************************************************************)
(* The App component: state                                                *)
(***************************************************************************)
VARIABLES
    clock,                  \* Date.now(), read by the handlers
    ai,                     \* the AI client is initialised
    internalCorpus,         \* company documents
    userAustracContent,     \* regulatory inputs
    savedAnalyses,          \* the saved-analyses store
    activeAnalysisId,       \* NullId or the id of the analysis being viewed
    challengeResult,        \* displayed Gap Review result (optional)
    deepDiveResult,         \* displayed Deep Dive result (optional)
    fetchStatus,            \* FetchState of the Gap Review
    deepDiveFetchStatus,    \* FetchState of the Deep Dive
    error,                  \* Gap Review error message (optional)
    deepDiveError,          \* Deep Dive error message (optional)
    activeTab,
    selectedRegulatoryIdsForGapReview,
    selectedCompanyDocIdsForGapReview,
    selectedDocForDeepDiveId,
    isIngestionProcessing,
    showDraftModal,         \* the draft modal covers the page
    currentDraftingChange,  \* the change the draft modal was opened for (optional)
    runs,                   \* the asynchronous runs suspended at an await
    ops,                    \* run starts and edits of stored analyses so far
    fn                      \* input and output of a pure-function check

vars == <<clock, ai, internalCorpus, userAustracContent, savedAnalyses, activeAnalysisId,
          challengeResult, deepDiveResult, fetchStatus, deepDiveFetchStatus, error,
          deepDiveError, activeTab, selectedRegulatoryIdsForGapReview,
          selectedCompanyDocIdsForGapReview, selectedDocForDeepDiveId,
          isIngestionProcessing, showDraftModal, currentDraftingChange, runs,
          ops, fn>>

\* the part of the state the handlers of App read and write
appVars == <<clock, ai, internalCorpus, userAustracContent, savedAnalyses, activeAnalysisId,
             challengeResult, deepDiveResult, fetchStatus, deepDiveFetchStatus, error,
             deepDiveError, activeTab, selectedRegulatoryIdsForGapReview,
             selectedCompanyDocIdsForGapReview, selectedDocForDeepDiveId,
             isIngestionProcessing, showDraftModal, currentDraftingChange, runs, ops>>

NullId == 0
NoDoc == "none"
IDLE == "idle"
LOADING == "loading"
SUCCESS == "success"
ERROR == "error"
FetchState == {IDLE, LOADING, SUCCESS, ERROR}
TABS == {"challenge", "deepDive", "companyDocs", "austracInputs", "chat", "history"}

\* the view state as one record, so that a handler is a function on it
View == [savedAnalyses |-> savedAnalyses,
         activeAnalysisId |-> activeAnalysisId,
         challengeResult |-> challengeResult,
         deepDiveResult |-> deepDiveResult,
         fetchStatus |-> fetchStatus,
         deepDiveFetchStatus |-> deepDiveFetchStatus,
         error |-> error,
         deepDiveError |-> deepDiveError,
         activeTab |-> activeTab,
         selectedRegulatoryIdsForGapReview |-> selectedRegulatoryIdsForGapReview,
         selectedCompanyDocIdsForGapReview |-> selectedCompanyDocIdsForGapReview,
         selectedDocForDeepDiveId |-> selectedDocForDeepDiveId]

\* savedAnalyses.find(sa => sa.id === id), as the optional first match
findAnalysis(list, id) ==
    LET hits == {i \in 1..Len(list) : list[i].id = id}
    IN  IF hits = {} THEN None
        ELSE Some(list[CHOOSE i \in hits : \A k \in hits : i <= k])

\* the effect on [activeTab, activeAnalysisId, savedAnalyses]: leaving the tab
\* of the analysis being viewed resets the view
tabEffect(v) ==
    LET activeAnalysis == findAnalysis(v.savedAnalyses, v.activeAnalysisId)
    IN  IF v.activeAnalysisId = NullId \/ ~IsSome(activeAnalysis) THEN v
        ELSE IF v.activeTab = "challenge" /\ Val(activeAnalysis).type # "challenge"
        THEN [v EXCEPT !.activeAnalysisId = NullId,
                       !.challengeResult = None,
                       !.selectedRegulatoryIdsForGapReview = {},
                       !.fetchStatus = IDLE,
                       !.error = None]
        ELSE IF v.activeTab = "deepDive" /\ Val(activeAnalysis).type # "deepDive"
        THEN [v EXCEPT !.activeAnalysisId = NullId,
                       !.deepDiveResult = None,
                       !.selectedDocForDeepDiveId = NoDoc,
                       !.deepDiveFetchStatus = IDLE,
                       !.deepDiveError = None]
        ELSE v

loadAnalysisForViewing(v, analysisIdToLoad, listToUse) ==
    LET analysisToLoad == findAnalysis(listToUse, analysisIdToLoad)
    IN  IF IsSome(analysisToLoad)
        THEN LET a == Val(analysisToLoad)
                 w == [v EXCEPT !.activeAnalysisId = a.id,
                                !.error = None,
                                !.deepDiveError = None]
             IN  IF a.type = "challenge"
                 THEN [w EXCEPT !.challengeResult = Some(a.result),
                                !.selectedRegulatoryIdsForGapReview = {},
                                !.selectedCompanyDocIdsForGapReview = {},
                                !.fetchStatus = SUCCESS,
                                !.deepDiveResult = None,
                                !.selectedDocForDeepDiveId = NoDoc,
                                !.deepDiveFetchStatus = IDLE,
                                !.activeTab = "challenge"]
                 ELSE [w EXCEPT !.deepDiveResult = Some(a.result),
                                !.selectedDocForDeepDiveId =
                                    IF IsSome(a.selectedDocumentSnapshot)
                                    THEN Val(a.selectedDocumentSnapshot).id ELSE NoDoc,
                                !.deepDiveFetchStatus = SUCCESS,
                                !.challengeResult = None,
                                !.fetchStatus = IDLE,
                                !.activeTab = "deepDive"]
        ELSE [v EXCEPT !.challengeResult = None,
                       !.deepDiveResult = None,
                       !.selectedDocForDeepDiveId = NoDoc,
                       !.activeAnalysisId = NullId,
                       !.fetchStatus = IDLE,
                       !.deepDiveFetchStatus = IDLE]

\* writes the view record back, after the effects that follow a render
Commit(v) ==
    LET w == tabEffect(v)
    IN  /\ savedAnalyses' = w.savedAnalyses
        /\ activeAnalysisId' = w.activeAnalysisId
        /\ challengeResult' = w.challengeResult
        /\ deepDiveResult' = w.deepDiveResult
        /\ fetchStatus' = w.fetchStatus
        /\ deepDiveFetchStatus' = w.deepDiveFetchStatus
        /\ error' = w.error
        /\ deepDiveError' = w.deepDiveError
        /\ activeTab' = w.activeTab
        /\ selectedRegulatoryIdsForGapReview' = w.selectedRegulatoryIdsForGapReview
        /\ selectedCompanyDocIdsForGapReview' = w.selectedCompanyDocIdsForGapReview
        /\ selectedDocForDeepDiveId' = w.selectedDocForDeepDiveId

(***************************************************************************)
(* Feedback on a displayed item and its merge into the store               *)
(***************************************************************************)
FeedbackFields == {"status", "notes", "lastUpdated", "finalAdoptedText"}

\* { ...(item.userFeedback || { lastUpdated: now }), ...feedbackUpdate, lastUpdated: now }
\* feedbackUpdate is a function on the fields it carries
applyFeedback(userFeedback, feedbackUpdate, now) ==
    [f \in FeedbackFields |->
        IF f = "lastUpdated" THEN now
        ELSE IF f \in DOMAIN feedbackUpdate THEN feedbackUpdate[f]
        ELSE userFeedback[f]]

\* items.map(item => item.id === itemId ? { ...item, userFeedback: ... } : item)
mapFeedback(items, itemId, feedbackUpdate, now) ==
    [i \in 1..Len(items) |->
        IF items[i].id = itemId
        THEN [items[i] EXCEPT !.userFeedback = applyFeedback(@, feedbackUpdate, now)]
        ELSE items[i]]

\* { ...result, ...updatedAnalysisData }: a shallow merge of two field maps
shallowMergeReplace(result, updatedAnalysisData) == updatedAnalysisData
shallowMerge(result, updatedAnalysisData) ==
    [f \in (DOMAIN result) \cup (DOMAIN updatedAnalysisData) |->
        IF f \in DOMAIN updatedAnalysisData THEN updatedAnalysisData[f] ELSE result[f]]

\* the .map(...) of updateFeedbackInSavedAnalyses, before the sort
mergedAnalyses(list, analysisIdToUpdate, updatedAnalysisData, now) ==
    [i \in 1..Len(list) |->
        IF list[i].id = analysisIdToUpdate
        THEN [list[i] EXCEPT !.result = shallowMerge(@, updatedAnalysisData),
                             !.timestamp = now]
        ELSE list[i]]

updateFeedbackNoSort(list, analysisIdToUpdate, updatedAnalysisData, now) ==
    mergedAnalyses(list, analysisIdToUpdate, updatedAnalysisData, now)
updateFeedbackInSavedAnalyses(list, analysisIdToUpdate, updatedAnalysisData, now) ==
    sortByTimestampDesc(mergedAnalyses(list, analysisIdToUpdate, updatedAnalysisData, now))

handleUpdateSuggestedChangeFeedback(v, itemId, feedbackUpdate, now) ==
    IF v.activeAnalysisId = NullId \/ ~IsSome(v.challengeResult) THEN v
    ELSE LET newChallengeResult ==
                 [Val(v.challengeResult) EXCEPT
                     !.suggested_changes = mapFeedback(@, itemId, feedbackUpdate, now)]
         IN  [v EXCEPT !.challengeResult = Some(newChallengeResult),
                       !.savedAnalyses = updateFeedbackInSavedAnalyses(
                           @, v.activeAnalysisId, newChallengeResult, now)]

handleUpdateActionPlanItemFeedback(v, itemId, feedbackUpdate, now) ==
    IF v.activeAnalysisId = NullId \/ ~IsSome(v.challengeResult) THEN v
    ELSE LET newChallengeResult ==
                 [Val(v.challengeResult) EXCEPT
                     !.action_plan = mapFeedback(@, itemId, feedbackUpdate, now)]
         IN  [v EXCEPT !.challengeResult = Some(newChallengeResult),
                       !.savedAnalyses = updateFeedbackInSavedAnalyses(
                           @, v.activeAnalysisId, newChallengeResult, now)]

handleUpdateDeepDiveChangeFeedback(v, itemId, feedbackUpdate, now) ==
    IF v.activeAnalysisId = NullId \/ ~IsSome(v.deepDiveResult) THEN v
    ELSE LET newDeepDiveResult ==
                 [Val(v.deepDiveResult) EXCEPT
                     !.suggested_changes = mapFeedback(@, itemId, feedbackUpdate, now)]
         IN  [v EXCEPT !.deepDiveResult = Some(newDeepDiveResult),
                       !.savedAnalyses = updateFeedbackInSavedAnalyses(
                           @, v.activeAnalysisId, newDeepDiveResult, now)]

handleUpdateDeepDiveActionPlanFeedback(v, itemId, feedbackUpdate, now) ==
    IF v.activeAnalysisId = NullId \/ ~IsSome(v.deepDiveResult) THEN v
    ELSE LET newDeepDiveResult ==
                 [Val(v.deepDiveResult) EXCEPT
                     !.action_plan = mapFeedback(@, itemId, feedbackUpdate, now)]
         IN  [v EXCEPT !.deepDiveResult = Some(newDeepDiveResult),
                       !.savedAnalyses = updateFeedbackInSavedAnalyses(
                           @, v.activeAnalysisId, newDeepDiveResult, now)]

(***************************************************************************)
(* History page and view handlers                                          *)
(***************************************************************************)
handleDeleteKeepView(v, idToDelete) ==
    [v EXCEPT !.savedAnalyses = SelectSeq(@, LAMBDA sa : sa.id # idToDelete)]
handleDeleteAnalysis(v, idToDelete) ==
    LET w == [v EXCEPT !.savedAnalyses = SelectSeq(@, LAMBDA sa : sa.id # idToDelete)]
    IN  IF v.activeAnalysisId = idToDelete
        THEN [w EXCEPT !.activeAnalysisId = NullId,
                       !.challengeResult = None,
                       !.fetchStatus = IDLE,
                       !.deepDiveResult = None,
                       !.selectedDocForDeepDiveId = NoDoc,
                       !.deepDiveFetchStatus = IDLE]
        ELSE w

handleRenameAnalysisTouch(v, idToRename, newName) ==
    [v EXCEPT !.savedAnalyses =
        [i \in 1..Len(@) |-> IF @[i].id = idToRename
                             THEN [@[i] EXCEPT !.name = newName, !.timestamp = NullId]
                             ELSE @[i]]]
handleRenameAnalysis(v, idToRename, newName) ==
    [v EXCEPT !.savedAnalyses =
        [i \in 1..Len(@) |-> IF @[i].id = idToRename THEN [@[i] EXCEPT !.name = newName]
                             ELSE @[i]]]

\* the "Clear View & Prepare New Gap Review" button
clearGapReviewView(v) ==
    [v EXCEPT !.activeAnalysisId = NullId, !.challengeResult = None, !.fetchStatus = IDLE]

handleClearDeepDiveView(v) ==
    [v EXCEPT !.activeAnalysisId = NullId,
              !.deepDiveResult = None,
              !.selectedDocForDeepDiveId = NoDoc,
              !.deepDiveFetchStatus = IDLE,
              !.deepDiveError = None]

(***************************************************************************)
(* Documents and generator output                                          *)
(***************************************************************************)
CompanyDocIds == {"c1"}
RegulatoryDocIds == {"r1"}
docName(id) == CASE id = "c1" -> <<"a">> [] id = "r1" -> <<"b">> [] OTHER -> <<"B">>

\* the documents of the two libraries, as the records a run reads; the text
\* of a document is one token that names it
textOf(id) ==
    CASE id = "c1" -> "textContent of c1"
      [] id = "r1" -> "rawContent of r1"
      [] id = "r2" -> "rawContent of r2"
      [] OTHER -> "text of another document"
companyDocument(id) ==
    [id |-> id, name |-> docName(id), textContent |-> textOf(id), type |-> "txt",
     lastModified |-> 0, size |-> 1]
regulatoryInput(id) ==
    [id |-> id, title |-> docName(id), rawContent |-> textOf(id), type |-> "pasted",
     dateAdded |-> 0]
\* the snapshots of inputsUsed and selectedDocumentSnapshot
companyDocSnapshot(d) ==
    [id |-> d.id, name |-> d.name, type |-> d.type, lastModified |-> d.lastModified,
     size |-> d.size]
austracSnapshot(d) == [id |-> d.id, title |-> d.title, type |-> d.type, dateAdded |-> d.dateAdded]

TxtNA == <<"N/A">>
TxtGeneral == <<"General">>
Priorities == {"High", "Medium", "Low"}

\* what JSON.parse returns for the generator text that parses: one suggested
\* change and one action item
RawChange ==
    [source_document_name |-> Some(docName("c1")), document_section |-> Some(<<"a", "s">>),
     priority |-> "High"]
RawItem == [priority_level |-> "Low"]
GenOutputs == {[suggested_changes |-> <<RawChange>>, action_plan |-> <<RawItem>>]}

coercePriorityKeep(p) == p
coercePriority(p) == IF p \in Priorities THEN p ELSE "Medium"
orElse(o, default) == IF Truthy(o) THEN Val(o) ELSE default

\* generateGapReview, lines 646-647: ids, priorities and text defaults
gapSuggestedChangesKeepId(parsed, now) ==
    [i \in 1..Len(parsed.suggested_changes) |->
        LET change == parsed.suggested_changes[i]
        IN  [id |-> IF IsSome(change.id) THEN Val(change.id) ELSE <<"sc", now, i - 1>>,
             source_document_name |-> change.source_document_name,
             document_section |-> orElse(change.document_section, TxtNA),
             priority |-> coercePriority(change.priority),
             userFeedback |-> NoFeedback]]
gapSuggestedChanges(parsed, now) ==
    [i \in 1..Len(parsed.suggested_changes) |->
        LET change == parsed.suggested_changes[i]
        IN  [id |-> <<"sc", now, i - 1>>,
             source_document_name |-> change.source_document_name,
             document_section |-> orElse(change.document_section, TxtNA),
             priority |-> coercePriority(change.priority),
             userFeedback |-> NoFeedback]]
gapActionPlan(parsed, now) ==
    [i \in 1..Len(parsed.action_plan) |->
        [id |-> <<"ap", now, i - 1>>,
         priority_level |-> coercePriority(parsed.action_plan[i].priority_level),
         userFeedback |-> NoFeedback]]

\* generateGapReview, lines 655-663
groupName(change) == orElse(change.source_document_name, TxtGeneral)
groupSuggestionsNamedOnly(changes) ==
    [g \in {Val(changes[i].source_document_name) :
                i \in {k \in 1..Len(changes) : Truthy(changes[k].source_document_name)}} |->
        SelectSeq(changes, LAMBDA change : change.source_document_name = Some(g))]
groupSuggestions(changes) ==
    [g \in {groupName(changes[i]) : i \in 1..Len(changes)} |->
        SelectSeq(changes, LAMBDA change : groupName(change) = g)]

gapResult(parsed, now) ==
    LET changes == gapSuggestedChanges(parsed, now)
    IN  [suggested_changes |-> changes,
         action_plan |-> gapActionPlan(parsed, now),
         groupedSuggestions |-> groupSuggestions(changes)]

\* generateDeepDive, lines 816-817
deepDiveSuggestedChanges(parsed, targetDocName, now) ==
    [i \in 1..Len(parsed.suggested_changes) |->
        LET change == parsed.suggested_changes[i]
        IN  [id |-> <<"ddsc", now, i - 1>>,
             source_document_name |-> change.source_document_name,
             document_section |-> orElse(change.document_section, targetDocName),
             priority |-> coercePriority(change.priority),
             userFeedback |-> NoFeedback]]
deepDiveActionPlan(parsed, now) ==
    [i \in 1..Len(parsed.action_plan) |->
        [id |-> <<"ddap", now, i - 1>>,
         priority_level |-> coercePriority(parsed.action_plan[i].priority_level),
         userFeedback |-> NoFeedback]]
deepDiveResultOf(parsed, targetDocName, now) ==
    [documentTitleAnalyzed |-> targetDocName,
     suggested_changes |-> deepDiveSuggestedChanges(parsed, targetDocName, now),
     action_plan |-> deepDiveActionPlan(parsed, now)]

\* the SavedAnalysis a run stores
TxtGapReviewName(now) == <<"Gap Review - ", ToString(now)>>
TxtDeepDiveName(targetDocName) == <<"Deep Dive - ">> \o targetDocName

\* the prompts a run stores with its analysis.  The retrieved context of the
\* Gap Review prompt is left to gapUserPromptContext; the Deep Dive prompt
\* quotes the target document
TxtGapSystemPrompt == <<"Analyze the provided context against the company's internal documentation context.">>
TxtGapUserPrompt == <<"Output the analysis in JSON format.">>
TxtDeepDiveSystemPrompt == <<"Perform a \"Deep Dive\" analysis of the following Company Document.">>
\* response.candidates[0].groundingMetadata of the Deep Dive response
TxtGroundingMetadata == "groundingMetadata"
deepDiveUserPrompt(targetDoc) ==
    <<"Company Document Name: ">> \o targetDoc.name
        \o <<"Document Content:", targetDoc.textContent, "Provided Context:">>

newGapAnalysis(run, result, now) ==
    [id |-> now,
     name |-> TxtGapReviewName(now),
     timestamp |-> now,
     type |-> "challenge",
     result |-> result,
     austracInputsUsedSnapshot |->
         {austracSnapshot(regulatoryInput(id)) : id \in run.targetedRegulatoryContent},
     companyDocumentsUsedSnapshot |->
         {companyDocSnapshot(companyDocument(id)) : id \in run.targetedCompanyDocs},
     selectedDocumentSnapshot |-> None,
     summarizedAustracUpdatesSnapshot |-> run.summaries,
     learningsAppliedToThisAnalysis |-> run.contextualLearnings,
     systemPrompt |-> TxtGapSystemPrompt,
     userPrompt |-> TxtGapUserPrompt,
     groundingMetadata |-> None]
newDeepDiveAnalysis(run, result, now) ==
    [id |-> now,
     name |-> TxtDeepDiveName(docName(run.targetDoc)),
     timestamp |-> now,
     type |-> "deepDive",
     result |-> result,
     austracInputsUsedSnapshot |-> {},
     companyDocumentsUsedSnapshot |-> {},
     selectedDocumentSnapshot |-> Some(companyDocSnapshot(companyDocument(run.targetDoc))),
     summarizedAustracUpdatesSnapshot |-> {},
     learningsAppliedToThisAnalysis |-> <<>>,
     systemPrompt |-> TxtDeepDiveSystemPrompt,
     userPrompt |-> deepDiveUserPrompt(companyDocument(run.targetDoc)),
     groundingMetadata |-> Some(TxtGroundingMetadata)]

(***************************************************************************)
(* Bounds of the App state machine                                         *)
(***************************************************************************)
MaxClock == 3           \* Date.now() takes the values 1..MaxClock
MaxOps == 2             \* run starts and edits of stored analyses in a session
MaxInFlight == 2        \* runs suspended at an await at the same time

(***************************************************************************)
(* Gap Review and Deep Dive runs.  A run suspended at an await is a record *)
(* in runs; pc names the call it is waiting for, which is in flight.       *)
(***************************************************************************)
ErrNoAi == "AI client not initialized."
ErrValidation == "Please select at least one Company Document AND at least one Regulatory Input"
ErrRun == "An error occurred while generating"
ErrParse == "The response was not valid JSON"
ErrTargetNotFound == "Target document not found."

removeAt(list, i) == SubSeq(list, 1, i - 1) \o SubSeq(list, i + 1, Len(list))
replaceAt(list, i, x) == [list EXCEPT ![i] = x]
setToSeq(S) == CHOOSE q \in [1..Cardinality(S) -> S] : {q[i] : i \in 1..Cardinality(S)} = S

isProcessed(id) ==
    IF id \in DOMAIN internalCorpus THEN internalCorpus[id].isProcessedForRag
    ELSE userAustracContent[id].isProcessedForRag

\* the documents ingestAllUnprocessedDocuments(false) will send, in its order
unprocessedDocs ==
    SelectSeq(setToSeq(DOMAIN internalCorpus), LAMBDA id : ~isProcessed(id))
    \o SelectSeq(setToSeq(DOMAIN userAustracContent), LAMBDA id : ~isProcessed(id))

\* the summaries of generateGapReview: the placeholder of a failed call, the
\* text of a call that returned
TxtSummaryFailed == "Could not generate summary due to an error."
TxtSummaryText == "summaryResult.text"
\* Promise.all of no promise resolves at once
summariesPc(targetedRegulatoryContent) ==
    IF targetedRegulatoryContent = {} THEN "retrieve" ELSE "summaries"

CanStartRun == Len(runs) < MaxInFlight /\ ops < MaxOps

gapInputsInvalidBothEmpty(targetRegulatoryIds, companyDocIds) ==
    companyDocIds = {} /\ targetRegulatoryIds = {}
gapInputsInvalid(targetRegulatoryIds, companyDocIds) ==
    companyDocIds = {} \/ targetRegulatoryIds = {}

\* the learnings generateGapReview reads from the store of the render it was called in
gapContextualLearnings(targetedCompanyDocs) ==
    selectContextualLearningsForChallengePrompt(
        extractLearningsFromFeedback(
            SelectSeq(savedAnalyses, LAMBDA sa : sa.type = "challenge"), None),
        [i \in 1..Cardinality(targetedCompanyDocs) |->
            [name |-> docName(setToSeq(targetedCompanyDocs)[i])]],
        DEFAULT_MAX_LEARNINGS_FOR_PROMPT)

generateGapReview(targetRegulatoryIds, companyDocIds) ==
    /\ UNCHANGED <<clock, ai, internalCorpus, userAustracContent,
                   showDraftModal, currentDraftingChange, fn>>
    /\ IF ~ai
       THEN /\ Commit([View EXCEPT !.error = Some(ErrNoAi), !.fetchStatus = ERROR])
            /\ UNCHANGED <<runs, isIngestionProcessing, ops>>
       ELSE IF gapInputsInvalid(targetRegulatoryIds, companyDocIds)
       THEN /\ Commit([View EXCEPT !.error = Some(ErrValidation), !.fetchStatus = IDLE])
            /\ UNCHANGED <<runs, isIngestionProcessing, ops>>
       ELSE LET targetedRegulatoryContent == targetRegulatoryIds \cap DOMAIN userAustracContent
                targetedCompanyDocs == companyDocIds \cap DOMAIN internalCorpus
                uningestedDocsExist ==
                    \E id \in targetedCompanyDocs \cup targetedRegulatoryContent : ~isProcessed(id)
            IN  /\ CanStartRun
                /\ ops' = ops + 1
                /\ Commit([View EXCEPT !.fetchStatus = LOADING,
                                       !.error = None,
                                       !.challengeResult = None,
                                       !.activeAnalysisId = NullId])
                /\ runs' = Append(runs,
                       [kind |-> "gap",
                        pc |-> IF uningestedDocsExist THEN "ingest"
                               ELSE summariesPc(targetedRegulatoryContent),
                        todo |-> IF uningestedDocsExist THEN unprocessedDocs ELSE <<>>,
                        targetedRegulatoryContent |-> targetedRegulatoryContent,
                        targetedCompanyDocs |-> targetedCompanyDocs,
                        targetDoc |-> NoDoc,
                        pending |-> targetedRegulatoryContent,
                        summaries |-> {},
                        contextualLearnings |-> gapContextualLearnings(targetedCompanyDocs)])
                /\ isIngestionProcessing' = (uningestedDocsExist \/ isIngestionProcessing)

generateDeepDive(docId) ==
    /\ UNCHANGED <<clock, ai, internalCorpus, userAustracContent,
                   showDraftModal, currentDraftingChange, fn>>
    /\ IF ~ai
       THEN /\ Commit([View EXCEPT !.deepDiveError = Some(ErrNoAi),
                                   !.deepDiveFetchStatus = ERROR])
            /\ UNCHANGED <<runs, isIngestionProcessing, ops>>
       ELSE IF docId \notin DOMAIN internalCorpus
       THEN /\ Commit([View EXCEPT !.deepDiveError = Some(ErrTargetNotFound),
                                   !.deepDiveFetchStatus = ERROR])
            /\ UNCHANGED <<runs, isIngestionProcessing, ops>>
       ELSE /\ CanStartRun
            /\ ops' = ops + 1
            /\ Commit([View EXCEPT !.deepDiveFetchStatus = LOADING,
                                   !.deepDiveError = None,
                                   !.deepDiveResult = None,
                                   !.activeAnalysisId = NullId])
            /\ runs' = Append(runs,
                   [kind |-> "deepDive",
                    pc |-> IF ~isProcessed(docId) THEN "ingest" ELSE "retrieveLegislative",
                    todo |-> IF ~isProcessed(docId) THEN unprocessedDocs ELSE <<>>,
                    targetedRegulatoryContent |-> {},
                    targetedCompanyDocs |-> {},
                    targetDoc |-> docId,
                    pending |-> {},
                    summaries |-> {},
                    contextualLearnings |-> <<>>])
            /\ isIngestionProcessing' = (~isProcessed(docId) \/ isIngestionProcessing)

\* Date.now() returns now: time does not run backwards
ReadClock(now) == now \in clock..MaxClock /\ clock' = now

\* one ingestDocumentToVertexAI call of processAndIngestDoc returns
IngestReturn(i, outcome) ==
    LET run == runs[i]
        doc == Head(run.todo)
        rest == Tail(run.todo)
        after == IF run.kind = "gap" THEN summariesPc(run.targetedRegulatoryContent)
                 ELSE "retrieveLegislative"
    IN  /\ run.pc = "ingest"
        /\ IF outcome = "success" /\ doc \in DOMAIN internalCorpus
           THEN internalCorpus' = [internalCorpus EXCEPT ![doc].isProcessedForRag = TRUE]
           ELSE UNCHANGED internalCorpus
        /\ IF outcome = "success" /\ doc \in DOMAIN userAustracContent
           THEN userAustracContent' = [userAustracContent EXCEPT ![doc].isProcessedForRag = TRUE]
           ELSE UNCHANGED userAustracContent
        /\ runs' = replaceAt(runs, i, [run EXCEPT !.todo = rest,
                                                  !.pc = IF rest = <<>> THEN after ELSE "ingest"])
        /\ isIngestionProcessing' = IF rest = <<>> THEN FALSE ELSE isIngestionProcessing
        /\ Commit(View)
        /\ UNCHANGED <<clock, ai, showDraftModal, currentDraftingChange, ops, fn>>

\* the catch blocks of generateGapReview
gapRunErrorKeepStatus(v, message) == [v EXCEPT !.error = Some(message)]
gapRunError(v, message) == [v EXCEPT !.error = Some(message), !.fetchStatus = ERROR]

GapRunFails(i, message) ==
    /\ runs' = removeAt(runs, i)
    /\ Commit(gapRunError(View, message))
    /\ UNCHANGED <<clock, ai, internalCorpus, userAustracContent, isIngestionProcessing,
                   showDraftModal, currentDraftingChange, ops, fn>>

\* a summary call whose failure reaches the catch block of the run
GapSummaryReturnEscalates(i, update, outcome) ==
    /\ runs[i].kind = "gap" /\ runs[i].pc = "summaries"
    /\ update \in runs[i].pending
    /\ outcome = "throws"
    /\ GapRunFails(i, ErrRun)

\* one summary call of summarizedUpdatesPromises returns or throws; the catch
\* of its promise returns the placeholder.  Promise.all resolves with the
\* last of them, and the run goes on to the retrieval call.
\* { ...update, summary }
withSummary(update, summary) ==
    [id |-> update.id, title |-> update.title, rawContent |-> update.rawContent,
     type |-> update.type, dateAdded |-> update.dateAdded, summary |-> summary]
summarizedUpdate(update, outcome) ==
    withSummary(regulatoryInput(update),
                IF outcome = "throws" THEN TxtSummaryFailed ELSE TxtSummaryText)
GapSummaryReturn(i, update, outcome) ==
    LET run == runs[i]
        rest == run.pending \ {update}
    IN  /\ run.kind = "gap" /\ run.pc = "summaries"
        /\ update \in run.pending
        /\ runs' = replaceAt(runs, i,
                [run EXCEPT !.summaries = @ \cup {summarizedUpdate(update, outcome)},
                            !.pending = rest,
                            !.pc = IF rest = {} THEN "retrieve" ELSE "summaries"])
        /\ Commit(View)
        /\ UNCHANGED <<clock, ai, internalCorpus, userAustracContent, isIngestionProcessing,
                       showDraftModal, currentDraftingChange, ops, fn>>

GapRetrieveReturn(i, outcome) ==
    LET run == runs[i]
    IN  /\ run.kind = "gap" /\ run.pc = "retrieve"
        /\ IF outcome = "throws"
           THEN GapRunFails(i, ErrRun)
           ELSE /\ runs' = replaceAt(runs, i, [run EXCEPT !.pc = "generate"])
                /\ Commit(View)
                /\ UNCHANGED <<clock, ai, internalCorpus, userAustracContent,
                               isIngestionProcessing, showDraftModal,
                               currentDraftingChange, ops, fn>>

\* the store after a run adds its analysis: setSavedAnalyses(prev => [new, ...prev])
addAnalysis(list, analysis) == <<analysis>> \o list

gapRunSucceeds(v, run, parsed, now) ==
    LET parsedResult == gapResult(parsed, now)
    IN  [v EXCEPT !.challengeResult = Some(parsedResult),
                  !.savedAnalyses = addAnalysis(@, newGapAnalysis(run, parsedResult, now)),
                  !.activeAnalysisId = now,
                  !.fetchStatus = SUCCESS,
                  !.selectedRegulatoryIdsForGapReview = {},
                  !.selectedCompanyDocIdsForGapReview = {}]

\* the final generateContent call returns: it throws, or its text after the
\* repair does not parse, or it parses to parsed
GapGenerateReturn(i, outcome, parsed, now) ==
    LET run == runs[i]
    IN  /\ run.kind = "gap" /\ run.pc = "generate"
        /\ CASE outcome = "throws" -> GapRunFails(i, ErrRun)
             [] outcome = "unparseable" -> GapRunFails(i, ErrParse)
             [] OTHER ->
                 /\ runs' = removeAt(runs, i)
                 /\ ReadClock(now)
                 /\ Commit(gapRunSucceeds(View, run, parsed, now))
                 /\ UNCHANGED <<ai, internalCorpus, userAustracContent,
                                isIngestionProcessing, showDraftModal,
                                currentDraftingChange, ops, fn>>

\* the catch blocks of generateDeepDive
deepDiveRunErrorKeepStatus(v, message) == [v EXCEPT !.deepDiveError = Some(message)]
deepDiveRunError(v, message) ==
    [v EXCEPT !.deepDiveError = Some(message), !.deepDiveFetchStatus = ERROR]

DeepDiveRunFails(i, message) ==
    /\ runs' = removeAt(runs, i)
    /\ Commit(deepDiveRunError(View, message))
    /\ UNCHANGED <<clock, ai, internalCorpus, userAustracContent, isIngestionProcessing,
                   showDraftModal, currentDraftingChange, ops, fn>>

\* one of the two retrieveContextFromVertexAI calls of generateDeepDive returns
DeepDiveRetrieveReturn(i, outcome) ==
    LET run == runs[i]
    IN  /\ run.kind = "deepDive" /\ run.pc \in {"retrieveLegislative", "retrieveCompany"}
        /\ IF outcome = "throws"
           THEN DeepDiveRunFails(i, ErrRun)
           ELSE /\ runs' = replaceAt(runs, i,
                        [run EXCEPT !.pc = IF @ = "retrieveLegislative"
                                           THEN "retrieveCompany" ELSE "generate"])
                /\ Commit(View)
                /\ UNCHANGED <<clock, ai, internalCorpus, userAustracContent,
                               isIngestionProcessing, showDraftModal,
                               currentDraftingChange, ops, fn>>

deepDiveRunSucceeds(v, run, parsed, now) ==
    LET parsedResult == deepDiveResultOf(parsed, docName(run.targetDoc), now)
    IN  [v EXCEPT !.deepDiveResult = Some(parsedResult),
                  !.savedAnalyses = addAnalysis(@, newDeepDiveAnalysis(run, parsedResult, now)),
                  !.activeAnalysisId = now,
                  !.deepDiveFetchStatus = SUCCESS]

DeepDiveGenerateReturn(i, outcome, parsed, now) ==
    LET run == runs[i]
    IN  /\ run.kind = "deepDive" /\ run.pc = "generate"
        /\ CASE outcome = "throws" -> DeepDiveRunFails(i, ErrRun)
             [] outcome = "unparseable" -> DeepDiveRunFails(i, ErrParse)
             [] OTHER ->
                 /\ runs' = removeAt(runs, i)
                 /\ ReadClock(now)
                 /\ Commit(deepDiveRunSucceeds(View, run, parsed, now))
                 /\ UNCHANGED <<ai, internalCorpus, userAustracContent,
                                isIngestionProcessing, showDraftModal,
                                currentDraftingChange, ops, fn>>

(***************************************************************************)
(* User actions.  While the draft modal is open it covers the page, so the *)
(* page's controls cannot be reached.                                      *)
(***************************************************************************)
Names == {<<"n">>}
NoteInputs == {<<"n">>}
DraftInputs == {<<"t">>}

PageReachable == ~showDraftModal

\* handlers that only change the view record
ViewStep(v) ==
    /\ Commit(v)
    /\ UNCHANGED <<clock, ai, internalCorpus, userAustracContent, isIngestionProcessing,
                   showDraftModal, currentDraftingChange, runs, ops, fn>>

\* the handlers that edit a stored analysis
StoreEditStep(now, v) ==
    /\ ops < MaxOps
    /\ ops' = ops + 1
    /\ ReadClock(now)
    /\ Commit(v)
    /\ UNCHANGED <<ai, internalCorpus, userAustracContent, isIngestionProcessing,
                   showDraftModal, currentDraftingChange, runs, fn>>

SetActiveTab(tab) ==
    /\ PageReachable
    /\ tab # activeTab
    /\ ViewStep([View EXCEPT !.activeTab = tab])

\* the Gap Review tab shows the selection lists and the run button
GapSelectionShown ==
    activeTab = "challenge" /\ fetchStatus \in {IDLE, ERROR} /\ ~IsSome(challengeResult)
toggle(S, id) == IF id \in S THEN S \ {id} ELSE S \cup {id}

ToggleCompanyDoc(id) ==
    /\ PageReachable /\ GapSelectionShown
    /\ ViewStep([View EXCEPT !.selectedCompanyDocIdsForGapReview = toggle(@, id)])
ToggleRegulatoryInput(id) ==
    /\ PageReachable /\ GapSelectionShown
    /\ ViewStep([View EXCEPT !.selectedRegulatoryIdsForGapReview = toggle(@, id)])

ClickRunGapReview ==
    /\ PageReachable /\ GapSelectionShown
    /\ ai
    /\ selectedCompanyDocIdsForGapReview # {} /\ selectedRegulatoryIdsForGapReview # {}
    /\ generateGapReview(selectedRegulatoryIdsForGapReview, selectedCompanyDocIdsForGapReview)

activeAnalysisType ==
    LET a == findAnalysis(savedAnalyses, activeAnalysisId)
    IN  IF activeAnalysisId # NullId /\ IsSome(a) THEN Val(a).type ELSE "none"

ClickClearGapReviewView ==
    /\ PageReachable
    /\ activeTab = "challenge" /\ activeAnalysisType = "challenge"
    /\ ViewStep(clearGapReviewView(View))

\* DocumentDeepDivePage
isViewingHistorical == activeAnalysisType = "deepDive"

ClickStartDeepDive(docId) ==
    /\ PageReachable
    /\ activeTab = "deepDive" /\ ~isViewingHistorical
    /\ deepDiveFetchStatus # LOADING /\ ai /\ ~isIngestionProcessing
    /\ docId \in DOMAIN internalCorpus
    /\ generateDeepDive(docId)

ClickClearDeepDiveView ==
    /\ PageReachable
    /\ activeTab = "deepDive" /\ isViewingHistorical
    /\ ViewStep(handleClearDeepDiveView(View))

\* AnalysisHistoryPage
storedIds == {savedAnalyses[i].id : i \in 1..Len(savedAnalyses)}

ClickSelectAnalysis(id) ==
    /\ PageReachable /\ activeTab = "history"
    /\ id \in storedIds
    /\ ViewStep(loadAnalysisForViewing(View, id, savedAnalyses))

ClickDeleteAnalysis(id) ==
    /\ PageReachable /\ activeTab = "history"
    /\ id \in storedIds
    /\ ViewStep(handleDeleteAnalysis(View, id))

ConfirmRename(id, newName) ==
    /\ PageReachable /\ activeTab = "history"
    /\ id \in storedIds
    /\ ops < MaxOps
    /\ ops' = ops + 1
    /\ Commit(handleRenameAnalysis(View, id, newName))
    /\ UNCHANGED <<clock, ai, internalCorpus, userAustracContent, isIngestionProcessing,
                   showDraftModal, currentDraftingChange, runs, fn>>

\* the feedback controls of SuggestedChangeCard and ActionPlanItemCard
StatusInputs == {"Actioned", "Not Applicable"}
CardUpdates ==
    {[status |-> st] : st \in StatusInputs} \cup {[notes |-> Some(n)] : n \in NoteInputs}

GapResultShown ==
    activeTab = "challenge" /\ fetchStatus = SUCCESS /\ IsSome(challengeResult)
DeepDiveResultShown ==
    activeTab = "deepDive" /\ deepDiveFetchStatus = SUCCESS /\ IsSome(deepDiveResult)

itemsOf(list) == {list[i] : i \in 1..Len(list)}
\* the Gap Review tab renders its suggestion cards from groupedSuggestions
gapCards ==
    UNION {itemsOf(Val(challengeResult).groupedSuggestions[g]) :
               g \in DOMAIN Val(challengeResult).groupedSuggestions}

GapChangeFeedback(change, feedbackUpdate, now) ==
    /\ PageReachable /\ GapResultShown
    /\ change \in gapCards
    /\ StoreEditStep(now,
           handleUpdateSuggestedChangeFeedback(View, change.id, feedbackUpdate, now))

GapActionPlanFeedback(item, feedbackUpdate, now) ==
    /\ PageReachable /\ GapResultShown
    /\ item \in itemsOf(Val(challengeResult).action_plan)
    /\ StoreEditStep(now,
           handleUpdateActionPlanItemFeedback(View, item.id, feedbackUpdate, now))

DeepDiveChangeFeedback(change, feedbackUpdate, now) ==
    /\ PageReachable /\ DeepDiveResultShown
    /\ change \in itemsOf(Val(deepDiveResult).suggested_changes)
    /\ StoreEditStep(now,
           handleUpdateDeepDiveChangeFeedback(View, change.id, feedbackUpdate, now))

DeepDiveActionPlanFeedback(item, feedbackUpdate, now) ==
    /\ PageReachable /\ DeepDiveResultShown
    /\ item \in itemsOf(Val(deepDiveResult).action_plan)
    /\ StoreEditStep(now,
           handleUpdateDeepDiveActionPlanFeedback(View, item.id, feedbackUpdate, now))

\* handleGenerateDraft with the AI client present: the modal opens for the change
ClickDraftUpdatedText(change) ==
    /\ PageReachable /\ ai
    /\ \/ GapResultShown /\ change \in gapCards
       \/ DeepDiveResultShown /\ change \in itemsOf(Val(deepDiveResult).suggested_changes)
    /\ showDraftModal' = TRUE
    /\ currentDraftingChange' = Some(change)
    /\ Commit(View)
    /\ UNCHANGED <<clock, ai, internalCorpus, userAustracContent, isIngestionProcessing,
                   runs, ops, fn>>

CloseDraftModal ==
    /\ showDraftModal
    /\ showDraftModal' = FALSE
    /\ Commit(View)
    /\ UNCHANGED <<clock, ai, internalCorpus, userAustracContent, isIngestionProcessing,
                   currentDraftingChange, runs, ops, fn>>

\* DraftTextModal.handleSaveFinalVersion with a non-empty draft
finalDraftFeedback(changeItem, editableDraft) ==
    [finalAdoptedText |-> Some(editableDraft),
     status |-> IF changeItem.userFeedback.status # Undef
                THEN changeItem.userFeedback.status ELSE "Actioned",
     notes |-> changeItem.userFeedback.notes]

SaveFinalVersion(editableDraft, now) ==
    /\ showDraftModal /\ IsSome(currentDraftingChange)
    /\ ops < MaxOps
    /\ ops' = ops + 1
    /\ ReadClock(now)
    /\ LET changeItem == Val(currentDraftingChange)
           feedbackUpdate == finalDraftFeedback(changeItem, editableDraft)
       IN  IF changeItem.id[1] = "ddsc"
           THEN Commit(handleUpdateDeepDiveChangeFeedback(
                           View, changeItem.id, feedbackUpdate, now))
           ELSE Commit(handleUpdateSuggestedChangeFeedback(
                           View, changeItem.id, feedbackUpdate, now))
    /\ UNCHANGED <<ai, internalCorpus, userAustracContent, isIngestionProcessing,
                   showDraftModal, currentDraftingChange, runs, fn>>

(***************************************************************************)
(* The state after the mount effect of App.                                *)
(***************************************************************************)
ErrNoApiKey == "API_KEY environment variable not found."
NavTabs == {"challenge", "deepDive", "history"}

DocsInit ==
    /\ internalCorpus = [id \in CompanyDocIds |-> [isProcessedForRag |-> FALSE]]
    /\ userAustracContent = [id \in RegulatoryDocIds |-> [isProcessedForRag |-> TRUE]]
    /\ isIngestionProcessing = FALSE

\* what an earlier session left under the analyses key: nothing, or one Gap
\* Review stored at time 1
StoredRun ==
    [kind |-> "gap", pc |-> "generate", todo |-> <<>>,
     targetedRegulatoryContent |-> RegulatoryDocIds,
     targetedCompanyDocs |-> CompanyDocIds,
     targetDoc |-> NoDoc, pending |-> {},
     summaries |-> {summarizedUpdate(id, "ok") : id \in RegulatoryDocIds},
     contextualLearnings |-> <<>>]
PersistedStores ==
    {<<>>} \cup {<<newGapAnalysis(StoredRun, gapResult(parsed, 1), 1)>> : parsed \in GenOutputs}

\* the view before the mount effect has loaded anything
BlankView ==
    [savedAnalyses |-> <<>>, activeAnalysisId |-> NullId,
     challengeResult |-> None, deepDiveResult |-> None,
     fetchStatus |-> IDLE, deepDiveFetchStatus |-> IDLE,
     error |-> None, deepDiveError |-> None,
     activeTab |-> "challenge",
     selectedRegulatoryIdsForGapReview |-> {}, selectedCompanyDocIdsForGapReview |-> {},
     selectedDocForDeepDiveId |-> NoDoc]

\* the mount effect: the stored analyses are sorted and the first one is loaded
\* for viewing; without an API key the error stays only if nothing is loaded
mountView(hasAi, stored) ==
    LET loadedAnalyses == sortByTimestampDesc(stored)
        v == [BlankView EXCEPT !.savedAnalyses = loadedAnalyses,
                               !.error = IF hasAi THEN None ELSE Some(ErrNoApiKey)]
    IN  IF Len(loadedAnalyses) > 0
        THEN tabEffect(loadAnalysisForViewing(v, loadedAnalyses[1].id, loadedAnalyses))
        ELSE v

\* the state in which the mount effect leaves the view v
Mounted(v) ==
    /\ savedAnalyses = v.savedAnalyses
    /\ activeAnalysisId = v.activeAnalysisId
    /\ challengeResult = v.challengeResult
    /\ deepDiveResult = v.deepDiveResult
    /\ fetchStatus = v.fetchStatus
    /\ deepDiveFetchStatus = v.deepDiveFetchStatus
    /\ error = v.error
    /\ deepDiveError = v.deepDiveError
    /\ activeTab = v.activeTab
    /\ selectedRegulatoryIdsForGapReview = v.selectedRegulatoryIdsForGapReview
    /\ selectedCompanyDocIdsForGapReview = v.selectedCompanyDocIdsForGapReview
    /\ selectedDocForDeepDiveId = v.selectedDocForDeepDiveId
    /\ showDraftModal = FALSE
    /\ currentDraftingChange = None
    /\ runs = <<>>
    /\ ops = 0

MountEffect ==
    /\ ai \in BOOLEAN
    /\ \E stored \in PersistedStores : Mounted(mountView(ai, stored))

FirstClock == 2         \* Date.now() at mount, later than the stored analysis

Init ==
    /\ clock = FirstClock
    /\ DocsInit
    /\ MountEffect
    /\ fn = <<>>

AwaitReturns ==
    \/ \E i \in 1..Len(runs) : \E outcome \in {"success", "failed"} : IngestReturn(i, outcome)
    \/ \E i \in 1..Len(runs) : \E update \in DOMAIN userAustracContent :
           \E outcome \in {"ok", "throws"} : GapSummaryReturn(i, update, outcome)
    \/ \E i \in 1..Len(runs) : \E outcome \in {"ok", "throws"} : GapRetrieveReturn(i, outcome)
    \/ \E i \in 1..Len(runs) : \E outcome \in {"ok", "throws", "unparseable"} :
           \E parsed \in GenOutputs : \E now \in 1..MaxClock :
               GapGenerateReturn(i, outcome, parsed, now)
    \/ \E i \in 1..Len(runs) : \E outcome \in {"ok", "throws"} : DeepDiveRetrieveReturn(i, outcome)
    \/ \E i \in 1..Len(runs) : \E outcome \in {"ok", "throws", "unparseable"} :
           \E parsed \in GenOutputs : \E now \in 1..MaxClock :
               DeepDiveGenerateReturn(i, outcome, parsed, now)

UserActions ==
    \/ \E tab \in NavTabs : SetActiveTab(tab)
    \/ \E id \in CompanyDocIds : ToggleCompanyDoc(id)
    \/ \E id \in RegulatoryDocIds : ToggleRegulatoryInput(id)
    \/ ClickRunGapReview
    \/ ClickClearGapReviewView
    \/ \E docId \in CompanyDocIds : ClickStartDeepDive(docId)
    \/ ClickClearDeepDiveView
    \/ \E id \in storedIds : ClickSelectAnalysis(id)
    \/ \E id \in storedIds : ClickDeleteAnalysis(id)
    \/ \E id \in storedIds : \E newName \in Names : ConfirmRename(id, newName)
    \/ \E change \in (IF IsSome(challengeResult) THEN gapCards ELSE {}) :
           \E feedbackUpdate \in CardUpdates : \E now \in 1..MaxClock : GapChangeFeedback(change, feedbackUpdate, now)
    \/ \E item \in (IF IsSome(challengeResult)
                    THEN itemsOf(Val(challengeResult).action_plan) ELSE {}) :
           \E feedbackUpdate \in CardUpdates : \E now \in 1..MaxClock : GapActionPlanFeedback(item, feedbackUpdate, now)
    \/ \E change \in (IF IsSome(deepDiveResult)
                      THEN itemsOf(Val(deepDiveResult).suggested_changes) ELSE {}) :
           \E feedbackUpdate \in CardUpdates : \E now \in 1..MaxClock : DeepDiveChangeFeedback(change, feedbackUpdate, now)
    \/ \E item \in (IF IsSome(deepDiveResult)
                    THEN itemsOf(Val(deepDiveResult).action_plan) ELSE {}) :
           \E feedbackUpdate \in CardUpdates : \E now \in 1..MaxClock : DeepDiveActionPlanFeedback(item, feedbackUpdate, now)
    \/ \E change \in (IF IsSome(challengeResult) THEN gapCards ELSE {})
                     \cup (IF IsSome(deepDiveResult)
                           THEN itemsOf(Val(deepDiveResult).suggested_changes) ELSE {}) :
           ClickDraftUpdatedText(change)
    \/ CloseDraftModal
    \/ \E editableDraft \in DraftInputs : \E now \in 1..MaxClock :
           SaveFinalVersion(editableDraft, now)

Next == UserActions \/ AwaitReturns

Spec == Init /\ [][Next]_vars

(***************************************************************************)
(* generateGapReview and generateDeepDive called directly, with any        *)
(* arguments and in any state, as a caller of the two functions can.       *)
(***************************************************************************)
UnknownDoc == "zz"

CallNext ==
    \/ \E targetRegulatoryIds \in SUBSET RegulatoryDocIds :
           \E companyDocIds \in SUBSET CompanyDocIds :
               generateGapReview(targetRegulatoryIds, companyDocIds)
    \/ \E docId \in CompanyDocIds \cup {UnknownDoc} : generateDeepDive(docId)
    \/ \E tab \in NavTabs : SetActiveTab(tab)
    \/ AwaitReturns

CallSpec == Init /\ [][CallNext]_vars

(***************************************************************************)
(* The operations on the saved-analyses store called directly, with any id *)
(* and any partial result, on a store loaded from persisted state.  fn     *)
(* keeps the last call.                                                    *)
(***************************************************************************)
MaxStored == 2          \* analyses in the persisted store
AnyIds == 1..MaxClock
PartialResults == {[action_plan |-> <<>>], [suggested_changes |-> <<>>]}

\* the analyses an earlier session stored at time t
StoredAnalyses(t) ==
    {newGapAnalysis(StoredRun, gapResult(parsed, t), t) : parsed \in GenOutputs}
    \cup {newDeepDiveAnalysis([StoredRun EXCEPT !.kind = "deepDive", !.targetDoc = "c1"],
                              deepDiveResultOf(parsed, docName("c1"), t), t) :
             parsed \in GenOutputs}
\* persisted stores: one analysis per time 1..n, in either order in the blob
StoredLists ==
    UNION {{q \in [1..n -> UNION {StoredAnalyses(t) : t \in 1..n}] :
               \A i, j \in 1..n : i # j => q[i].timestamp # q[j].timestamp} : n \in 0..MaxStored}

StoreInit ==
    /\ clock = MaxStored
    /\ DocsInit
    /\ ai \in BOOLEAN
    /\ \E stored \in StoredLists : Mounted(mountView(ai, stored))
    /\ fn = [op |-> "mount"]

CallStep(call, v) ==
    /\ fn' = call
    /\ Commit(v)
    /\ UNCHANGED <<clock, ai, internalCorpus, userAustracContent, isIngestionProcessing,
                   showDraftModal, currentDraftingChange, runs, ops>>

CallLoadAnalysisForViewing(id) ==
    CallStep([op |-> "loadAnalysisForViewing", id |-> id],
             loadAnalysisForViewing(View, id, savedAnalyses))

CallHandleDeleteAnalysis(id) ==
    CallStep([op |-> "handleDeleteAnalysis", id |-> id,
              wasActive |-> (id = activeAnalysisId), wasStored |-> (id \in storedIds)],
             handleDeleteAnalysis(View, id))

CallHandleRenameAnalysis(id, newName) ==
    CallStep([op |-> "handleRenameAnalysis", id |-> id],
             handleRenameAnalysis(View, id, newName))

CallUpdateFeedbackInSavedAnalyses(id, updatedAnalysisData, now) ==
    /\ ops < MaxOps
    /\ ops' = ops + 1
    /\ ReadClock(now)
    /\ fn' = [op |-> "updateFeedbackInSavedAnalyses", id |-> id,
              data |-> updatedAnalysisData, wasStored |-> (id \in storedIds)]
    /\ Commit([View EXCEPT !.savedAnalyses =
                   updateFeedbackInSavedAnalyses(@, id, updatedAnalysisData, now)])
    /\ UNCHANGED <<ai, internalCorpus, userAustracContent, isIngestionProcessing,
                   showDraftModal, currentDraftingChange, runs>>

StoreNext ==
    \/ \E id \in AnyIds : CallLoadAnalysisForViewing(id)
    \/ \E id \in AnyIds : CallHandleDeleteAnalysis(id)
    \/ \E id \in AnyIds : \E newName \in Names : CallHandleRenameAnalysis(id, newName)
    \/ \E id \in AnyIds : \E updatedAnalysisData \in PartialResults :
           \E now \in 1..MaxClock : CallUpdateFeedbackInSavedAnalyses(id, updatedAnalysisData, now)

StoreSpec == StoreInit /\ [][StoreNext]_vars

(***************************************************************************)
(* extractLearningsFromFeedback applied to bounded inputs.  The App state  *)
(* stands still at a first launch; fn holds the arguments and the result.  *)
(***************************************************************************)
FnAppInit ==
    /\ clock = FirstClock
    /\ DocsInit
    /\ ai = TRUE
    /\ Mounted(mountView(TRUE, <<>>))

FnStatuses == {Undef, "Actioned", "Not Applicable", "Pending Review"}
FnNotes == {None, Some(<<>>), Some(<<" ">>), Some(<<"n">>)}
FnAdopted == {None, Some(<<>>), Some(<<"t">>)}
FnFeedbacks ==
    [status : FnStatuses, notes : FnNotes, lastUpdated : {0}, finalAdoptedText : FnAdopted]
FbActioned == [NoFeedback EXCEPT !.status = "Actioned"]
FbPending == [NoFeedback EXCEPT !.status = "Pending Review"]

FnChange(fb) == [document_section |-> <<"s">>, userFeedback |-> fb]
FnChangeLists(feedbacks, minLen) ==
    UNION {[1..n -> {FnChange(fb) : fb \in feedbacks}] : n \in minLen..MaxFnChanges}
FnAnalysis(timestamp, type, changes) ==
    [name |-> <<"n">>, timestamp |-> timestamp, type |-> type,
     result |-> [suggested_changes |-> changes]]

\* analyses whose changes are actioned or pending, stamped 1..MaxFnTime
FnCapAnalyses ==
    {FnAnalysis(t, "deepDive", changes) :
        t \in 1..MaxFnTime, changes \in FnChangeLists({FbActioned, FbPending}, 0)}
FnCaps == {None} \cup {Some(k) : k \in 0..MaxFnChanges}

ExtractCall(analyses, maxLearnings) ==
    [analyses |-> analyses, maxLearnings |-> maxLearnings,
     done |-> FALSE, entries |-> <<>>, learnings |-> <<>>]

\* the arguments: one analysis whose changes carry any feedback, scanned
\* without a cap; or up to MaxFnAnalyses analyses in any order of timestamps,
\* scanned with and without a cap
ExtractInit ==
    /\ FnAppInit
    /\ \/ \E changes \in FnChangeLists(FnFeedbacks, 1) :
             fn = ExtractCall(<<FnAnalysis(1, "challenge", changes)>>, None)
       \/ \E n \in 0..MaxFnAnalyses : \E analyses \in [1..n -> FnCapAnalyses] :
             \E maxLearnings \in FnCaps : fn = ExtractCall(analyses, maxLearnings)

CallExtractLearningsFromFeedback ==
    /\ ~fn.done
    /\ fn' = [fn EXCEPT !.done = TRUE,
                        !.entries = extractEntries(fn.analyses, fn.maxLearnings),
                        !.learnings = extractLearningsFromFeedback(fn.analyses,
                                                                   fn.maxLearnings)]
    /\ UNCHANGED appVars

ExtractSpec == ExtractInit /\ [][CallExtractLearningsFromFeedback]_vars

(***************************************************************************)
(* selectContextualLearningsForChallengePrompt applied to learnings that   *)
(* extractLearningsFromFeedback builds from bounded document sections, and *)
(* to bounded lists of target documents.                                   *)
(***************************************************************************)
FnChars == {"a", "A", "b"}
FnTexts(maxLen) == UNION {[1..n -> FnChars] : n \in 0..maxLen}
FnSections == FnTexts(MaxSectionLen)
FnDocNames == FnTexts(MaxSectionLen) \ {<<>>}      \* a file name is not empty

FnLearning(section) ==
    learningPoint(FnAnalysis(1, "challenge", <<>>),
                  [document_section |-> section, userFeedback |-> FbActioned])

SelectInit ==
    /\ FnAppInit
    /\ \E sections \in UNION {[1..n -> FnSections] : n \in 0..MaxFnLearnings},
          names \in UNION {[1..n -> FnDocNames] : n \in 0..MaxFnDocs} :
          fn = [sections |-> sections,
                allPotentialLearnings |->
                    [i \in 1..Len(sections) |-> FnLearning(sections[i])],
                currentCompanyDocsForChallenge |->
                    [i \in 1..Len(names) |-> [name |-> names[i]]],
                done |-> FALSE, contextualLearnings |-> <<>>]

CallSelectContextualLearningsForChallengePrompt ==
    /\ ~fn.done
    /\ fn' = [fn EXCEPT !.done = TRUE,
                        !.contextualLearnings =
                            selectContextualLearningsForChallengePrompt(
                                fn.allPotentialLearnings,
                                fn.currentCompanyDocsForChallenge,
                                DEFAULT_MAX_LEARNINGS_FOR_PROMPT)]
    /\ UNCHANGED appVars

SelectSpec == SelectInit /\ [][CallSelectContextualLearningsForChallengePrompt]_vars

(***************************************************************************)
(* selectContextualLearningsForChat applied to bounded stores: analyses of *)
(* both types, named by the user (handleRenameAnalysis accepts any         *)
(* non-blank text), each with one suggested change.  generalRecentLearnings*)
(* is what the learnings effect computes from the store, under a cap.      *)
(***************************************************************************)
MaxChatAnalyses == 2    \* analyses in the store given to the chat selector
MaxChatTotal == 2       \* largest maxTotalLearnings given to the chat selector

ChatNames == {<<"a">>, <<"b">>, <<"a", ".", ".", ".", ")", "b">>}
ChatChanges ==
    {[document_section |-> section, userFeedback |-> fb] :
        section \in {<<"s">>, <<"t">>}, fb \in {FbActioned, FbPending}}
ChatAnalysis(name, type, change, timestamp) ==
    [name |-> name, timestamp |-> timestamp, type |-> type,
     result |-> [suggested_changes |-> <<change>>]]
ChatShapes == ChatNames \X {"challenge", "deepDive"} \X ChatChanges

ChatInit ==
    /\ FnAppInit
    /\ \E n \in 0..MaxChatAnalyses : \E shapes \in [1..n -> ChatShapes] :
          LET allSavedAnalyses ==
                  [i \in 1..n |-> ChatAnalysis(shapes[i][1], shapes[i][2], shapes[i][3], i)]
          IN  \E active \in 0..n, cap \in 0..MaxChatAnalyses,
                 maxTotalLearnings \in 0..MaxChatTotal :
                 fn = [allSavedAnalyses |-> allSavedAnalyses,
                       activeAnalysis |->
                           IF active = 0 THEN None ELSE Some(allSavedAnalyses[active]),
                       generalRecentLearnings |->
                           extractLearningsFromFeedback(allSavedAnalyses, Some(cap)),
                       maxTotalLearnings |-> maxTotalLearnings,
                       done |-> FALSE, finalLearningsForPrompt |-> <<>>]

CallSelectContextualLearningsForChat ==
    /\ ~fn.done
    /\ fn' = [fn EXCEPT !.done = TRUE,
                        !.finalLearningsForPrompt =
                            selectContextualLearningsForChat(
                                fn.generalRecentLearnings, fn.activeAnalysis,
                                fn.allSavedAnalyses, fn.maxTotalLearnings)]
    /\ UNCHANGED appVars

ChatSpec == ChatInit /\ [][CallSelectContextualLearningsForChat]_vars

(***************************************************************************)
(* The prompt context of generateGapReview applied to bounded retrieval    *)
(* results: chunks of either type from any document of the index, with and *)
(* without text, against every non-empty pair of targeted lists.           *)
(***************************************************************************)
MaxChunks == 2          \* chunks in a retrieval result

ChunkDocIds == {"d1", "d2", "d3"}
Chunks == [documentType : {"company", "austrac"}, documentId : ChunkDocIds,
           text : {<<>>, <<"x">>}]

PromptInit ==
    /\ FnAppInit
    /\ \E n \in 0..MaxChunks : \E relevantChunks \in [1..n -> Chunks] :
          \E targetedRegulatoryContent \in (SUBSET ChunkDocIds) \ {{}},
             targetedCompanyDocs \in (SUBSET ChunkDocIds) \ {{}} :
             fn = [relevantChunks |-> relevantChunks,
                   targetedRegulatoryContent |-> targetedRegulatoryContent,
                   targetedCompanyDocs |-> targetedCompanyDocs,
                   done |-> FALSE,
                   userPromptContext |-> gapUserPromptContext(<<>>, {}, {})]

CallGapUserPromptContext ==
    /\ ~fn.done
    /\ fn' = [fn EXCEPT !.done = TRUE,
                        !.userPromptContext =
                            gapUserPromptContext(fn.relevantChunks,
                                                 fn.targetedRegulatoryContent,
                                                 fn.targetedCompanyDocs)]
    /\ UNCHANGED appVars

PromptSpec == PromptInit /\ [][CallGapUserPromptContext]_vars

(***************************************************************************)
(* repair applied to well-formed JSON texts: JSON.stringify of objects     *)
(* whose string values hold braces, words, commas and blanks, of action    *)
(* items with and without a priority, and of lists of objects.             *)
(***************************************************************************)
MaxStringLen == 3       \* tokens in a string value

jsonString(content) == <<Quote>> \o content \o <<Quote>>
jsonMember(key, value) == jsonString(<<key>>) \o <<":", " ">> \o value
RECURSIVE jsonJoin(_)
jsonJoin(parts) ==
    IF parts = <<>> THEN <<>>
    ELSE Head(parts) \o (IF Len(parts) > 1 THEN <<",", " ">> ELSE <<>>) \o jsonJoin(Tail(parts))
jsonObject(members) == <<"{">> \o jsonJoin(members) \o <<"}">>
jsonArray(items) == <<"[">> \o jsonJoin(items) \o <<"]">>

StringTokens == {"{", "}", ",", " ", "w"}
StringContents == UNION {[1..n -> StringTokens] : n \in 0..MaxStringLen}
WellFormedTexts ==
    {jsonObject(<<jsonMember("a", jsonString(content))>>) : content \in StringContents}
    \cup {jsonObject(<<jsonMember("timeline", jsonString(<<"w">>)),
                       jsonMember("priority_level", jsonString(<<p>>))>>) : p \in Priorities}
    \cup {jsonObject(<<jsonMember("timeline", jsonString(<<"w">>)),
                       jsonMember("a", jsonArray(<<jsonString(<<"w">>), jsonString(<<p>>)>>))>>) :
              p \in Priorities}
    \cup {jsonArray(<<jsonObject(<<jsonMember("a", jsonString(content))>>),
                      jsonObject(<<jsonMember("a", <<"w">>)>>)>>) :
              content \in {<<>>, <<"w">>}}

RepairInit ==
    /\ FnAppInit
    /\ \E text \in WellFormedTexts : fn = [text |-> text, done |-> FALSE, jsonStr |-> <<>>]

CallRepair ==
    /\ ~fn.done
    /\ fn' = [fn EXCEPT !.done = TRUE, !.jsonStr = repair(fn.text)]
    /\ UNCHANGED appVars

RepairSpec == RepairInit /\ [][CallRepair]_vars

(***************************************************************************)
(* deepDiveCompanyContext applied to bounded retrieval results against     *)
(* every target document of the index.                                     *)
(***************************************************************************)
CrossInit ==
    /\ FnAppInit
    /\ \E n \in 0..MaxChunks : \E companyDocChunks \in [1..n -> Chunks] :
          \E targetDocId \in ChunkDocIds :
             fn = [companyDocChunks |-> companyDocChunks,
                   targetDocId |-> targetDocId,
                   done |-> FALSE,
                   companyContext |-> deepDiveCompanyContext(<<>>, targetDocId)]

CallDeepDiveCompanyContext ==
    /\ ~fn.done
    /\ fn' = [fn EXCEPT !.done = TRUE,
                        !.companyContext =
                            deepDiveCompanyContext(fn.companyDocChunks, fn.targetDocId)]
    /\ UNCHANGED appVars

CrossSpec == CrossInit /\ [][CallDeepDiveCompanyContext]_vars

(***************************************************************************)
(* The store between a state update and the render that follows it.  The   *)
(* handlers of App are created anew in every render and read the state of  *)
(* that render (rendered); a setter called with a function is applied to   *)
(* the latest state (latest), a setter called with a value replaces it.    *)
(* The updates of a user event are rendered before the next event; the     *)
(* updates made after an await are rendered by a later task, or at once:   *)
(* a user event may or may not come before that render.                    *)
(***************************************************************************)
MaxRenderRuns == 2      \* runs started in a session
MaxRenderClock == 6     \* Date.now() of the last update

\* setters called with the values a handler computed in its render
setValues(latest, computed, fields) ==
    [f \in DOMAIN latest |-> IF f \in fields THEN computed[f] ELSE latest[f]]
\* the render after the updates, and its effect on the active tab
rendering(v) == [rendered |-> tabEffect(v), latest |-> tabEffect(v)]

RenderInit ==
    /\ FnAppInit
    /\ \E stored \in PersistedStores :
          fn = [rendered |-> mountView(TRUE, stored), latest |-> mountView(TRUE, stored),
                awaiting |-> 0, started |-> 0, clock |-> FirstClock]

RenderStep(after, awaiting, started, now) ==
    /\ fn' = [rendered |-> after.rendered, latest |-> after.latest,
              awaiting |-> awaiting, started |-> started, clock |-> now]
    /\ UNCHANGED appVars

\* generateGapReview up to its first await
RenderRunGapReview ==
    /\ fn.started < MaxRenderRuns
    /\ RenderStep(rendering([fn.latest EXCEPT !.fetchStatus = LOADING,
                                              !.error = None,
                                              !.challengeResult = None,
                                              !.activeAnalysisId = NullId]),
                  fn.awaiting + 1, fn.started + 1, fn.clock)

\* the rest of generateGapReview after its last await: the state is updated,
\* the render is still to come
RenderRunReturns(parsed) ==
    /\ fn.awaiting > 0
    /\ fn.clock < MaxRenderClock
    /\ RenderStep([rendered |-> fn.rendered,
                   latest |-> gapRunSucceeds(fn.latest, StoredRun, parsed, fn.clock + 1)],
                  fn.awaiting - 1, fn.started, fn.clock + 1)

\* the render of the updates made after an await
CommitRender ==
    /\ fn.rendered # fn.latest
    /\ RenderStep(rendering(fn.latest), fn.awaiting, fn.started, fn.clock)

\* loadAnalysisForViewing from the history list of the render
RenderSelectAnalysis(id) ==
    /\ id \in {fn.rendered.savedAnalyses[i].id : i \in 1..Len(fn.rendered.savedAnalyses)}
    /\ RenderStep(rendering(loadAnalysisForViewing(fn.latest, id, fn.rendered.savedAnalyses)),
                  fn.awaiting, fn.started, fn.clock)

\* handleUpdateSuggestedChangeFeedback from a card of the render
RenderChangeFeedback(itemId, feedbackUpdate) ==
    /\ fn.clock < MaxRenderClock
    /\ fn.rendered.activeTab = "challenge" /\ fn.rendered.fetchStatus = SUCCESS
    /\ IsSome(fn.rendered.challengeResult)
    /\ \E i \in 1..Len(Val(fn.rendered.challengeResult).suggested_changes) :
           Val(fn.rendered.challengeResult).suggested_changes[i].id = itemId
    /\ LET computed == handleUpdateSuggestedChangeFeedback(
                           fn.rendered, itemId, feedbackUpdate, fn.clock + 1)
           fields == IF fn.rendered.activeAnalysisId = NullId THEN {}
                     ELSE {"challengeResult", "savedAnalyses"}
       IN  RenderStep(rendering(setValues(fn.latest, computed, fields)),
                      fn.awaiting, fn.started, fn.clock + 1)

\* handleDeleteAnalysis from the history list of the render
RenderDeleteAnalysis(id) ==
    /\ id \in {fn.rendered.savedAnalyses[i].id : i \in 1..Len(fn.rendered.savedAnalyses)}
    /\ LET filtered == [fn.latest EXCEPT
                           !.savedAnalyses = SelectSeq(@, LAMBDA sa : sa.id # id)]
           cleared == handleDeleteAnalysis(fn.rendered, id)
           fields == IF fn.rendered.activeAnalysisId = id
                     THEN {"activeAnalysisId", "challengeResult", "fetchStatus",
                           "deepDiveResult", "selectedDocForDeepDiveId",
                           "deepDiveFetchStatus"}
                     ELSE {}
       IN  RenderStep(rendering(setValues(filtered, cleared, fields)),
                      fn.awaiting, fn.started, fn.clock)

\* handleRenameAnalysis from the history list of the render
RenderRenameAnalysis(id, newName) ==
    /\ id \in {fn.rendered.savedAnalyses[i].id : i \in 1..Len(fn.rendered.savedAnalyses)}
    /\ RenderStep(rendering(handleRenameAnalysis(fn.latest, id, newName)),
                  fn.awaiting, fn.started, fn.clock)

RenderIds == 1..MaxRenderClock
RenderItemIds == {<<"sc", t, 0>> : t \in RenderIds}

RenderNext ==
    \/ RenderRunGapReview
    \/ \E parsed \in GenOutputs : RenderRunReturns(parsed)
    \/ CommitRender
    \/ \E id \in RenderIds : RenderSelectAnalysis(id)
    \/ \E itemId \in RenderItemIds : \E feedbackUpdate \in CardUpdates :
           RenderChangeFeedback(itemId, feedbackUpdate)
    \/ \E id \in RenderIds : RenderDeleteAnalysis(id)
    \/ \E id \in RenderIds : \E newName \in Names : RenderRenameAnalysis(id, newName)

RenderSpec == RenderInit /\ [][RenderNext]_vars

(***************************************************************************)
(* The Gap Review tab with a generator that returns up to MaxGenChanges    *)
(* suggested changes, each for the company document, with an empty         *)
(* document name or with none: the run, the cards rendered from            *)
(* groupedSuggestions, feedback on them, and the history list.             *)
(***************************************************************************)
MaxGenChanges == 2      \* suggested changes in a generator output

GenDocNames == {None, Some(<<>>), Some(docName("c1"))}
ReviewRawChanges ==
    {[RawChange EXCEPT !.source_document_name = name] : name \in GenDocNames}
ReviewGenOutputs ==
    {[suggested_changes |-> changes, action_plan |-> <<RawItem>>] :
        changes \in UNION {[1..n -> ReviewRawChanges] : n \in 0..MaxGenChanges}}

\* an earlier session left nothing, or one Gap Review with a change for the
\* company document and a change without a document name
ReviewStores ==
    {<<>>,
     <<newGapAnalysis(StoredRun,
                      gapResult([suggested_changes |->
                                     <<RawChange,
                                       [RawChange EXCEPT !.source_document_name = None]>>,
                                 action_plan |-> <<RawItem>>], 1), 1)>>}

ReviewInit ==
    /\ clock = FirstClock
    /\ DocsInit
    /\ ai = TRUE
    /\ \E stored \in ReviewStores : Mounted(mountView(ai, stored))
    /\ fn = <<>>

ReviewNext ==
    \/ \E tab \in {"challenge", "history"} : SetActiveTab(tab)
    \/ \E id \in CompanyDocIds : ToggleCompanyDoc(id)
    \/ \E id \in RegulatoryDocIds : ToggleRegulatoryInput(id)
    \/ ClickRunGapReview
    \/ ClickClearGapReviewView
    \/ \E id \in storedIds : ClickSelectAnalysis(id)
    \/ \E change \in (IF IsSome(challengeResult) THEN gapCards ELSE {}) :
           \E feedbackUpdate \in CardUpdates : \E now \in 1..MaxClock :
               GapChangeFeedback(change, feedbackUpdate, now)
    \/ \E i \in 1..Len(runs) : \E outcome \in {"success", "failed"} : IngestReturn(i, outcome)
    \/ \E i \in 1..Len(runs) : \E update \in DOMAIN userAustracContent :
           \E outcome \in {"ok", "throws"} : GapSummaryReturn(i, update, outcome)
    \/ \E i \in 1..Len(runs) : \E outcome \in {"ok", "throws"} : GapRetrieveReturn(i, outcome)
    \/ \E i \in 1..Len(runs) : \E outcome \in {"ok", "throws", "unparseable"} :
           \E parsed \in ReviewGenOutputs : \E now \in 1..MaxClock :
               GapGenerateReturn(i, outcome, parsed, now)

ReviewSpec == ReviewInit /\ [][ReviewNext]_vars

(***************************************************************************)
(* The post-processing of generateGapReview and generateDeepDive applied   *)
(* to bounded generator outputs: items with and without an id of their     *)
(* own (the same one when repeated), with a priority in or out of the      *)
(* allowed set or with none.                                               *)
(***************************************************************************)
MaxGenItems == 2        \* items in each list of a generator output

GenIds == {None, Some(<<"sc", 1, 0>>)}
GenPriorities == Priorities \cup {"Critical", Undef}
PostRawChanges ==
    {[source_document_name |-> Some(docName("c1")), document_section |-> Some(<<"s">>),
      priority |-> priority, id |-> id] : priority \in GenPriorities, id \in GenIds}
PostRawItems ==
    {[priority_level |-> priority, id |-> id] : priority \in {"Low", "low"}, id \in GenIds}

PostInit ==
    /\ FnAppInit
    /\ \E n, k \in 0..MaxGenItems :
          \E changes \in [1..n -> PostRawChanges], items \in [1..k -> PostRawItems] :
             \E kind \in {"gap", "deepDive"} :
                fn = [kind |-> kind,
                      parsed |-> [suggested_changes |-> changes, action_plan |-> items],
                      now |-> 1, done |-> FALSE,
                      result |-> [suggested_changes |-> <<>>, action_plan |-> <<>>]]

CallPostProcess ==
    /\ ~fn.done
    /\ fn' = [fn EXCEPT !.done = TRUE,
                        !.result = IF fn.kind = "gap"
                                   THEN gapResult(fn.parsed, fn.now)
                                   ELSE deepDiveResultOf(fn.parsed, docName("c1"), fn.now)]
    /\ UNCHANGED appVars

PostSpec == PostInit /\ [][CallPostProcess]_vars

(***************************************************************************)
(* Gap Review runs over two regulatory inputs, one of them not ingested,   *)
(* and a company document that is not ingested: every ingestion call and   *)
(* every summary call may fail.                                            *)
(***************************************************************************)
TwoRegulatoryIds == {"r1", "r2"}

SummaryInit ==
    /\ clock = FirstClock
    /\ ai = TRUE
    /\ internalCorpus = [id \in CompanyDocIds |-> [isProcessedForRag |-> FALSE]]
    /\ userAustracContent = [id \in TwoRegulatoryIds |-> [isProcessedForRag |-> id = "r1"]]
    /\ isIngestionProcessing = FALSE
    /\ Mounted(mountView(ai, <<>>))
    /\ fn = <<>>

SummaryNext ==
    \/ \E id \in CompanyDocIds : ToggleCompanyDoc(id)
    \/ \E id \in TwoRegulatoryIds : ToggleRegulatoryInput(id)
    \/ ClickRunGapReview
    \/ \E i \in 1..Len(runs) : \E outcome \in {"success", "failed"} : IngestReturn(i, outcome)
    \/ \E i \in 1..Len(runs) : \E update \in DOMAIN userAustracContent :
           \E outcome \in {"ok", "throws"} : GapSummaryReturn(i, update, outcome)
    \/ \E i \in 1..Len(runs) : \E outcome \in {"ok", "throws"} : GapRetrieveReturn(i, outcome)
    \/ \E i \in 1..Len(runs) : \E outcome \in {"ok", "throws", "unparseable"} :
           \E parsed \in GenOutputs : \E now \in 1..MaxClock :
               GapGenerateReturn(i, outcome, parsed, now)

SummarySpec == SummaryInit /\ [][SummaryNext]_vars

(***************************************************************************)
(* The runs and the controls that start them and change what is viewed,    *)
(* with the collaborator calls in flight returning or throwing in the end. *)
(***************************************************************************)
RunNext ==
    \/ \E tab \in NavTabs : SetActiveTab(tab)
    \/ \E id \in CompanyDocIds : ToggleCompanyDoc(id)
    \/ \E id \in RegulatoryDocIds : ToggleRegulatoryInput(id)
    \/ ClickRunGapReview
    \/ ClickClearGapReviewView
    \/ \E docId \in CompanyDocIds : ClickStartDeepDive(docId)
    \/ ClickClearDeepDiveView
    \/ \E id \in storedIds : ClickSelectAnalysis(id)
    \/ AwaitReturns

LiveSpec == Init /\ [][RunNext]_vars /\ WF_vars(AwaitReturns)

(***************************************************************************)
(* The persistence effects of App.  mem holds the collections the effects  *)
(* depend on, storage the localStorage keys: absent, or the text written.  *)
(* Startup is the first commit, then the commit of the render that sees    *)
(* what the mount effect loaded.  After it a step is a state setter giving *)
(* a collection a new value, followed by the effect that depends on it.  JSON.stringify wraps a value into the   *)
(* text that JSON.parse would read back; on a text that is not JSON        *)
(* JSON.parse throws.                                                      *)
(***************************************************************************)
MAX_CACHED_LEARNINGS == 10

stringify(value) == [parses |-> TRUE, json |-> value]
CorruptText == [parses |-> FALSE, json |-> <<>>]
parse(text) == text.json
setItem(storage, key, text) == [storage EXCEPT ![key] = Some(text)]
removeItem(storage, key) == [storage EXCEPT ![key] = None]
getItem(storage, key) == storage[key]

\* the effects that write a list under its key, or remove the key
listEffect(st, collection, key) ==
    IF Len(st.mem[collection]) > 0
    THEN [st EXCEPT !.storage = setItem(@, key, stringify(st.mem[collection]))]
    ELSE IF IsSome(getItem(st.storage, key))
    THEN [st EXCEPT !.storage = removeItem(@, key)]
    ELSE st

\* the effect on savedAnalyses, which also refreshes the learnings
savedAnalysesEffect(st) ==
    IF Len(st.mem.savedAnalyses) > 0
    THEN LET newLearnings ==
                 extractLearningsFromFeedback(st.mem.savedAnalyses,
                                              Some(MAX_CACHED_LEARNINGS))
         IN  [st EXCEPT !.storage =
                            setItem(setItem(@, "savedAnalyses",
                                            stringify(st.mem.savedAnalyses)),
                                    "chatbotLearnings", stringify(newLearnings)),
                        !.mem.chatbotLearnings = newLearnings]
    ELSE IF IsSome(getItem(st.storage, "savedAnalyses"))
    THEN [st EXCEPT !.storage = removeItem(removeItem(@, "savedAnalyses"),
                                           "chatbotLearnings"),
                    !.mem.chatbotLearnings = <<>>]
    ELSE st

\* the effect on activeAnalysisId
activeAnalysisIdEffect(st) ==
    IF st.mem.activeAnalysisId # NullId
    THEN [st EXCEPT !.storage = setItem(@, "activeAnalysisId", st.mem.activeAnalysisId)]
    ELSE [st EXCEPT !.storage = removeItem(@, "activeAnalysisId")]

JsonKeys == {"chatMessages", "internalCorpus", "userAustracContent", "savedAnalyses",
             "chatbotLearnings"}
StorageKeys == JsonKeys \cup {"activeAnalysisId"}

\* the collections before the mount effect has loaded anything
EmptyMem ==
    [chatMessages |-> <<>>, internalCorpus |-> <<>>, userAustracContent |-> <<>>,
     savedAnalyses |-> <<>>, chatbotLearnings |-> <<>>, activeAnalysisId |-> NullId]

\* The mount effect.  st.mem holds the values its setters were called with,
\* st.set the collections whose setter was called, st.storage the keys.
\* the chat history, the company corpus and the regulatory content
loadList(st, collection, key) ==
    LET text == getItem(st.storage, key)
    IN  IF ~IsSome(text) THEN st
        ELSE IF Val(text).parses
        THEN [st EXCEPT !.mem[collection] = parse(Val(text)), !.set = @ \cup {collection}]
        ELSE [st EXCEPT !.storage = removeItem(@, key)]

\* sa.id && sa.name && sa.timestamp && sa.type && (a result)
validAnalysis(sa) == sa.id # NullId /\ sa.name # <<>> /\ "result" \in DOMAIN sa

loadAnalysesUnsorted(st) ==
    LET text == getItem(st.storage, "savedAnalyses")
    IN  IF ~IsSome(text) THEN st
        ELSE IF Val(text).parses
                /\ \A i \in 1..Len(parse(Val(text))) : validAnalysis(parse(Val(text))[i])
        THEN [st EXCEPT !.mem.savedAnalyses = parse(Val(text)),
                        !.set = @ \cup {"savedAnalyses"}]
        ELSE [st EXCEPT !.storage = removeItem(@, "savedAnalyses")]
loadAnalyses(st) ==
    LET text == getItem(st.storage, "savedAnalyses")
    IN  IF ~IsSome(text) THEN st
        ELSE IF Val(text).parses
                /\ \A i \in 1..Len(parse(Val(text))) : validAnalysis(parse(Val(text))[i])
        THEN [st EXCEPT !.mem.savedAnalyses = sortByTimestampDesc(parse(Val(text))),
                        !.set = @ \cup {"savedAnalyses"}]
        ELSE [st EXCEPT !.storage = removeItem(@, "savedAnalyses")]

loadLearnings(st) ==
    LET text == getItem(st.storage, "chatbotLearnings")
        loadedAnalyses == st.mem.savedAnalyses
    IN  IF IsSome(text)
        THEN IF Val(text).parses
             THEN [st EXCEPT !.mem.chatbotLearnings = parse(Val(text))]
             ELSE [st EXCEPT !.storage = removeItem(@, "chatbotLearnings")]
        ELSE IF Len(loadedAnalyses) > 0
        THEN LET initialLearnings ==
                     extractLearningsFromFeedback(loadedAnalyses, Some(MAX_CACHED_LEARNINGS))
             IN  [st EXCEPT !.mem.chatbotLearnings = initialLearnings,
                            !.storage = setItem(@, "chatbotLearnings",
                                                stringify(initialLearnings))]
        ELSE st

\* the stored active id is loaded if the store holds it, else the newest analysis
restoreActiveAnalysis(st) ==
    LET storedActiveAnalysisId == getItem(st.storage, "activeAnalysisId")
        loadedAnalyses == st.mem.savedAnalyses
    IN  IF IsSome(storedActiveAnalysisId)
           /\ \E i \in 1..Len(loadedAnalyses) :
                  loadedAnalyses[i].id = Val(storedActiveAnalysisId)
        THEN [st EXCEPT !.mem.activeAnalysisId = Val(storedActiveAnalysisId)]
        ELSE IF Len(loadedAnalyses) > 0
        THEN [st EXCEPT !.mem.activeAnalysisId = loadedAnalyses[1].id]
        ELSE st

mountEffect(storage) ==
    restoreActiveAnalysis(loadLearnings(loadAnalyses(
        loadList(loadList(loadList([mem |-> EmptyMem, storage |-> storage, set |-> {}],
                                   "chatMessages", "chatMessages"),
                          "internalCorpus", "internalCorpus"),
                 "userAustracContent", "userAustracContent"))))

\* the persistence effects of the first render, which still sees the empty
\* collections, run after the mount effect in the order of their definition
firstEffects(storage) ==
    activeAnalysisIdEffect(savedAnalysesEffect(
        listEffect(listEffect(listEffect([mem |-> EmptyMem, storage |-> storage],
                                         "chatMessages", "chatMessages"),
                              "internalCorpus", "internalCorpus"),
                   "userAustracContent", "userAustracContent")))

\* the effects of the next render, for the collections that were set
effectIf(condition, after, before) == IF condition THEN after ELSE before
secondEffects(st, set) ==
    LET a == effectIf("chatMessages" \in set,
                      listEffect(st, "chatMessages", "chatMessages"), st)
        b == effectIf("internalCorpus" \in set,
                      listEffect(a, "internalCorpus", "internalCorpus"), a)
        c == effectIf("userAustracContent" \in set,
                      listEffect(b, "userAustracContent", "userAustracContent"), b)
        d == effectIf("savedAnalyses" \in set, savedAnalysesEffect(c), c)
    IN  effectIf(d.mem.activeAnalysisId # NullId, activeAnalysisIdEffect(d), d)

\* the first commit: the mount effect and the persistence effects of the first
\* render.  mem is what the next render will see: the setChatbotLearnings([])
\* of the savedAnalyses effect is queued after the one of the mount effect.
firstCommit(storage) ==
    LET mounted == mountEffect(storage)
        first == firstEffects(mounted.storage)
        learningsCleared == IsSome(getItem(mounted.storage, "savedAnalyses"))
        queued == IF learningsCleared
                  THEN [mounted.mem EXCEPT !.chatbotLearnings = <<>>] ELSE mounted.mem
    IN  [mem |-> queued, storage |-> first.storage, set |-> mounted.set]

MaxPersisted == 2       \* entries of a persisted list

PersistedAnalysis(t, fb, name) ==
    [id |-> t, name |-> name, timestamp |-> t, type |-> "challenge",
     result |-> [suggested_changes |-> <<FnChange(fb)>>]]
PersistedAnalyses ==
    {PersistedAnalysis(t, fb, <<"n">>) : t \in 1..MaxPersisted, fb \in {FbActioned, FbPending}}
\* an entry that fails the validation of the mount effect
UnnamedAnalysis == PersistedAnalysis(1, FbActioned, <<>>)
StaleLearnings == <<learningPoint(PersistedAnalysis(1, FbActioned, <<"n">>), FnChange(FbActioned))>>

\* what an earlier session, or anything else, left in localStorage; fn keeps
\* it in launchedWith until the first step after startup
StoredAnalysesTexts ==
    {stringify(list) : list \in {q \in [1..MaxPersisted -> PersistedAnalyses] :
                                     q[1].timestamp # q[2].timestamp}}
    \cup {stringify(<<a>>) : a \in PersistedAnalyses}
    \cup {stringify(<<PersistedAnalysis(2, FbPending, <<"n">>), UnnamedAnalysis>>), CorruptText}
StoredSessions ==
    {[chatMessages |-> chat, internalCorpus |-> None, userAustracContent |-> None,
      savedAnalyses |-> analyses, chatbotLearnings |-> learnings,
      activeAnalysisId |-> active] :
        chat \in {None, Some(stringify(<<"m">>)), Some(CorruptText)},
        analyses \in {None} \cup {Some(text) : text \in StoredAnalysesTexts},
        learnings \in {None, Some(stringify(StaleLearnings)), Some(CorruptText)},
        active \in {None, Some(1)}}

\* the page is opened: nothing is loaded yet
PersistInit ==
    /\ FnAppInit
    /\ \E stored \in StoredSessions :
          fn = [phase |-> "launch", mem |-> EmptyMem, storage |-> stored, set |-> {},
                launchedWith |-> Some(stored)]

FirstCommit ==
    /\ fn.phase = "launch"
    /\ LET st == firstCommit(fn.storage)
       IN  fn' = [fn EXCEPT !.phase = "mounted", !.mem = st.mem, !.storage = st.storage,
                            !.set = st.set]
    /\ UNCHANGED appVars

SecondCommit ==
    /\ fn.phase = "mounted"
    /\ fn' = [secondEffects(fn, fn.set) EXCEPT !.phase = "settled", !.set = {}]
    /\ UNCHANGED appVars

Settled == fn.phase = "settled"
PersistedLists(items) == UNION {[1..n -> items] : n \in 0..MaxPersisted}

SetList(collection, key, items) ==
    /\ Settled
    /\ \E list \in PersistedLists(items) :
          /\ list # fn.mem[collection]
          /\ fn' = listEffect([fn EXCEPT !.mem[collection] = list, !.launchedWith = None],
                              collection, key)
    /\ UNCHANGED appVars

SetSavedAnalyses ==
    /\ Settled
    /\ \E list \in PersistedLists(PersistedAnalyses) :
          /\ list # fn.mem.savedAnalyses
          /\ \A i, j \in 1..Len(list) : i < j => list[i].timestamp > list[j].timestamp
          /\ fn' = savedAnalysesEffect([fn EXCEPT !.mem.savedAnalyses = list,
                                                  !.launchedWith = None])
    /\ UNCHANGED appVars

SetActiveAnalysisId ==
    /\ Settled
    /\ \E id \in {NullId} \cup {sa.id : sa \in itemsOf(fn.mem.savedAnalyses)} :
          /\ id # fn.mem.activeAnalysisId
          /\ fn' = activeAnalysisIdEffect([fn EXCEPT !.mem.activeAnalysisId = id,
                                                     !.launchedWith = None])
    /\ UNCHANGED appVars

PersistNext ==
    \/ FirstCommit
    \/ SecondCommit
    \/ SetList("chatMessages", "chatMessages", {"m"})
    \/ SetList("internalCorpus", "internalCorpus", CompanyDocIds)
    \/ SetList("userAustracContent", "userAustracContent", RegulatoryDocIds)
    \/ SetSavedAnalyses
    \/ SetActiveAnalysisId

PersistSpec == PersistInit /\ [][PersistNext]_vars

(***************************************************************************)
(* Properties of extractLearningsFromFeedback (under ExtractSpec)          *)
(***************************************************************************)
\* change c of an input analysis has a learning in the result
ChangeEmitted(analysis, c) ==
    \E e \in 1..Len(fn.entries) :
        /\ fn.entries[e].c = c
        /\ fn.entries[e].timestamp = analysis.timestamp
        /\ fn.entries[e].text = learningPoint(analysis, analysis.result.suggested_changes[c])

NotesNonBlank(fb) == IsSome(fb.notes) /\ trim(Val(fb.notes)) # <<>>
AdoptedNonEmpty(fb) == IsSome(fb.finalAdoptedText) /\ Val(fb.finalAdoptedText) # <<>>

RuleOfThree(fb) ==
    \/ fb.status = "Actioned"
    \/ AdoptedNonEmpty(fb)
    \/ (fb.status = "Not Applicable" /\ NotesNonBlank(fb))
RuleWithStatus(fb) == fb.status # Undef /\ RuleOfThree(fb)

C9_CapAndOrder ==
    fn.done =>
        /\ IsSome(fn.maxLearnings) => Len(fn.learnings) <= Val(fn.maxLearnings)
        /\ Len(fn.learnings) = Len(fn.entries)
        /\ \A i, j \in 1..Len(fn.entries) :
              i < j =>
                  /\ fn.entries[i].timestamp >= fn.entries[j].timestamp
                  /\ fn.entries[i].a <= fn.entries[j].a
                  /\ (fn.entries[i].a = fn.entries[j].a) => fn.entries[i].c < fn.entries[j].c

\* a capped scan of analyses given oldest first: the cap cut the scan short
\* inside the newer analysis, whose learnings come out first
C9_Witness ==
    /\ fn.done /\ fn.maxLearnings = Some(1)
    /\ Len(fn.analyses) = 2
    /\ fn.analyses[1].timestamp < fn.analyses[2].timestamp
    /\ \A a \in 1..2 :
          /\ Len(fn.analyses[a].result.suggested_changes) = 2
          /\ \A c \in 1..2 :
                fn.analyses[a].result.suggested_changes[c].userFeedback = FbActioned
    /\ Len(fn.learnings) = 1
    /\ fn.entries[1].timestamp = fn.analyses[2].timestamp
    /\ fn.entries[1].c = 1

(***************************************************************************)
(* Properties of selectContextualLearningsForChallengePrompt (SelectSpec)  *)
(***************************************************************************)
InResult(l) ==
    \E k \in 1..Len(fn.contextualLearnings) :
        fn.contextualLearnings[k] = fn.allPotentialLearnings[l]
SameContent(k, l) ==
    /\ toLowerCase(fn.sections[k]) = toLowerCase(fn.sections[l])
    /\ coreLearningContent(fn.allPotentialLearnings[k])
           = coreLearningContent(fn.allPotentialLearnings[l])
\* learning l is treated as relevant: it is in the result, or it was left out
\* only as a repetition of an earlier learning that is in the result
Returned(l) == \E k \in 1..l : SameContent(k, l) /\ InResult(k)
Fragment(l) == toLowerCase(fn.sections[l])
TargetName(d) == toLowerCase(fn.currentCompanyDocsForChallenge[d].name)

ContainsATarget(l) ==
    \E d \in 1..Len(fn.currentCompanyDocsForChallenge) : includes(Fragment(l), TargetName(d))
WithinATarget(l) ==
    \E d \in 1..Len(fn.currentCompanyDocsForChallenge) : includes(TargetName(d), Fragment(l))

\* C10, as stated: a learning is relevant if and only if its lower-cased
\* fragment is a substring of some target document's lower-cased name or
\* contains some target document's lower-cased name.
C10_RelevantIffEitherWay ==
    fn.done => \A l \in 1..Len(fn.allPotentialLearnings) :
                   Returned(l) <=> (ContainsATarget(l) \/ WithinATarget(l))

\* C10, amended: a learning is relevant if and only if its fragment is not
\* empty and, lower-cased, contains some target document's lower-cased name;
\* a learning about "aA" is returned for the target "aA" and excluded when the
\* only target is "ab".
PolicyA == <<"a", "A">>
PolicyB == <<"a", "b">>
C10_RelevantIffContainsTarget ==
    fn.done =>
        /\ \A l \in 1..Len(fn.allPotentialLearnings) :
              Returned(l) <=> (Fragment(l) # <<>> /\ ContainsATarget(l))
        /\ \A l \in 1..Len(fn.allPotentialLearnings) :
              fn.sections[l] = PolicyA =>
                  /\ (\E d \in 1..Len(fn.currentCompanyDocsForChallenge) :
                          fn.currentCompanyDocsForChallenge[d].name = PolicyA) => Returned(l)
                  /\ fn.currentCompanyDocsForChallenge = <<[name |-> PolicyB]>> => ~Returned(l)

\* a selection that returned the learning whose fragment contains the target
\* name and dropped the one whose fragment is only a part of it
C10_Witness ==
    /\ fn.done
    /\ fn.currentCompanyDocsForChallenge = <<[name |-> PolicyA]>>
    /\ fn.sections = <<<<"A">>, PolicyA>>
    /\ fn.contextualLearnings = <<fn.allPotentialLearnings[2]>>

(***************************************************************************)
(* Properties of generateGapReview called directly (under CallSpec)        *)
(***************************************************************************)
\* C1: a call of generateGapReview with the AI client available and an empty
\* list of regulatory ids or of company document ids sets the validation
\* message and leaves the Gap Review status Idle; it issues no ingestion,
\* summary, retrieval or generation call and leaves the store unchanged.
C1_EmptySelectionFailsValidation ==
    [][\A targetRegulatoryIds \in SUBSET RegulatoryDocIds :
          \A companyDocIds \in SUBSET CompanyDocIds :
              (/\ ai
               /\ targetRegulatoryIds = {} \/ companyDocIds = {}
               /\ generateGapReview(targetRegulatoryIds, companyDocIds))
              => /\ error' = Some(ErrValidation)
                 /\ fetchStatus' = IDLE
                 /\ runs' = runs
                 /\ savedAnalyses' = savedAnalyses
                 /\ UNCHANGED <<internalCorpus, userAustracContent, isIngestionProcessing>>
      ]_vars

\* the validation message is on display over a stored analysis, nothing runs
C1_Witness ==
    /\ ai
    /\ error = Some(ErrValidation)
    /\ fetchStatus = IDLE
    /\ runs = <<>>
    /\ savedAnalyses # <<>>

(***************************************************************************)
(* Properties of the store operations called directly (under StoreSpec)    *)
(***************************************************************************)
\* C5: handleDeleteAnalysis(id) with id the active analysis leaves the active
\* pointer null, both displayed results null and both statuses Idle; with an
\* id that is not in the store it changes neither the store nor the active
\* pointer nor the displayed results, and sets no error.
C5_DeleteActiveOrAbsent ==
    [][\A id \in AnyIds :
          CallHandleDeleteAnalysis(id)
          => /\ (id = activeAnalysisId)
                    => /\ activeAnalysisId' = NullId
                       /\ challengeResult' = None
                       /\ deepDiveResult' = None
                       /\ fetchStatus' = IDLE
                       /\ deepDiveFetchStatus' = IDLE
             /\ (id \notin storedIds)
                    => /\ savedAnalyses' = savedAnalyses
                       /\ UNCHANGED <<activeAnalysisId, challengeResult, deepDiveResult,
                                      fetchStatus, deepDiveFetchStatus, error, deepDiveError>>
      ]_vars

\* the analysis on display has just been deleted from a store of two
C5_Witness ==
    /\ fn.op = "handleDeleteAnalysis"
    /\ fn.wasActive /\ fn.wasStored
    /\ activeAnalysisId = NullId
    /\ challengeResult = None /\ deepDiveResult = None
    /\ Len(savedAnalyses) = 1

\* C6: after updateFeedbackInSavedAnalyses(id, partial) for an id in the
\* store, the analysis with that id has every field of partial set to
\* partial's value and every other result field as before the merge; every
\* other analysis is unchanged and the set of ids in the store is unchanged.
C6_MergeKeepsOtherFields ==
    [][\A id \in AnyIds : \A updatedAnalysisData \in PartialResults : \A now \in 1..MaxClock :
          (id \in storedIds /\ CallUpdateFeedbackInSavedAnalyses(id, updatedAnalysisData, now))
          => LET before == Val(findAnalysis(savedAnalyses, id))
                 got == findAnalysis(savedAnalyses', id)
             IN  /\ IsSome(got)
                 /\ \A f \in DOMAIN updatedAnalysisData :
                       f \in DOMAIN Val(got).result
                           /\ Val(got).result[f] = updatedAnalysisData[f]
                 /\ \A f \in (DOMAIN before.result) \ (DOMAIN updatedAnalysisData) :
                       f \in DOMAIN Val(got).result
                           /\ Val(got).result[f] = before.result[f]
                 /\ {sa \in itemsOf(savedAnalyses') : sa.id # id}
                       = {sa \in itemsOf(savedAnalyses) : sa.id # id}
                 /\ Len(savedAnalyses') = Len(savedAnalyses)
                 /\ storedIds' = storedIds
      ]_vars

\* the older of two stored analyses has just had its action plan replaced: it
\* kept its suggested changes and moved to the front of the store
C6_Witness ==
    /\ fn.op = "updateFeedbackInSavedAnalyses"
    /\ fn.wasStored
    /\ fn.data = [action_plan |-> <<>>]
    /\ Len(savedAnalyses) = 2
    /\ savedAnalyses[1].id = fn.id
    /\ savedAnalyses[1].id < savedAnalyses[2].id
    /\ savedAnalyses[1].result.action_plan = <<>>
    /\ savedAnalyses[1].result.suggested_changes # <<>>

(***************************************************************************)
(* Properties of the App under user actions and run completions (Spec)     *)
(***************************************************************************)
GapRunFailure(i) ==
    \/ GapRetrieveReturn(i, "throws")
    \/ \E outcome \in {"throws", "unparseable"} :
           \E parsed \in GenOutputs : \E now \in 1..MaxClock :
               GapGenerateReturn(i, outcome, parsed, now)
DeepDiveRunFailure(i) ==
    \/ DeepDiveRetrieveReturn(i, "throws")
    \/ \E outcome \in {"throws", "unparseable"} :
           \E parsed \in GenOutputs : \E now \in 1..MaxClock :
               DeepDiveGenerateReturn(i, outcome, parsed, now)

\* C2: when a Gap Review or Deep Dive run ends because a retrieval or the
\* final generation throws, or because the generator's text does not parse,
\* the status of that run's kind is Error, the run is over, and the store is
\* as it was: no analysis added and none modified.
C2_FailedRunPersistsNothing ==
    [][\A i \in 1..Len(runs) :
          /\ GapRunFailure(i)
                => /\ fetchStatus' = ERROR
                   /\ error' \in {Some(ErrRun), Some(ErrParse)}
                   /\ savedAnalyses' = savedAnalyses
                   /\ Len(runs') = Len(runs) - 1
          /\ DeepDiveRunFailure(i)
                => /\ deepDiveFetchStatus' = ERROR
                   /\ deepDiveError' \in {Some(ErrRun), Some(ErrParse)}
                   /\ savedAnalyses' = savedAnalyses
                   /\ Len(runs') = Len(runs) - 1
      ]_vars

\* a Gap Review run has failed to parse over a store that holds an analysis
C2_Witness ==
    /\ fetchStatus = ERROR
    /\ error = Some(ErrParse)
    /\ runs = <<>>
    /\ savedAnalyses # <<>>

\* C3: at most one Gap Review run and at most one Deep Dive run is in flight.
C3_OneRunPerTypeInFlight ==
    \A i, j \in 1..Len(runs) : i # j => runs[i].kind # runs[j].kind

\* C4: the saved-analyses store is sorted by timestamp, most recent first.
C4_StoreSortedNewestFirst ==
    \A i \in 1..(Len(savedAnalyses) - 1) :
        savedAnalyses[i].timestamp >= savedAnalyses[i + 1].timestamp

\* feedback on the older of two analyses has refreshed its timestamp and the
\* sort has moved it in front of the one created after it
C4_Witness ==
    /\ Len(savedAnalyses) = 2
    /\ savedAnalyses[1].id < savedAnalyses[2].id
    /\ savedAnalyses[1].timestamp > savedAnalyses[2].timestamp

\* the suggestion cards the Gap Review tab can show
shownGapCards == IF IsSome(challengeResult) THEN gapCards ELSE {}

\* C7: every feedback update on a displayed suggested change refreshes the
\* lastUpdated of that change, and an update that carries no finalAdoptedText
\* leaves the change's finalAdoptedText as it was.
C7_EveryUpdateRefreshesLastUpdated ==
    [][\A change \in shownGapCards : \A feedbackUpdate \in CardUpdates : \A now \in 1..MaxClock :
          GapChangeFeedback(change, feedbackUpdate, now)
          => /\ IsSome(challengeResult')
             /\ \A k \in 1..Len(Val(challengeResult').suggested_changes) :
                   LET after == Val(challengeResult').suggested_changes[k]
                       before == Val(challengeResult).suggested_changes[k]
                   IN  after.id = change.id
                          => /\ after.userFeedback.lastUpdated = now
                             /\ after.userFeedback.finalAdoptedText
                                    = before.userFeedback.finalAdoptedText
      ]_vars

(***************************************************************************)
(* Properties of selectContextualLearningsForChat (under ChatSpec)         *)
(***************************************************************************)
\* the stored analysis carries the type and the 20-character name prefix of
\* the active analysis
SameTag(analysis, activeAnalysis) ==
    /\ analysis.type = activeAnalysis.type
    /\ substring0(analysis.name, NAME_TAG_LENGTH)
           = substring0(activeAnalysis.name, NAME_TAG_LENGTH)

\* the learnings of the whole store whose analysis carries the active tag, in
\* extraction order
TagMatchingLearnings ==
    LET sorted == sortedAnalysesOf(fn.allSavedAnalyses)
        entries == extractEntries(fn.allSavedAnalyses, None)
        own == SelectSeq(entries,
                         LAMBDA e : SameTag(sorted[e.a], Val(fn.activeAnalysis)))
    IN  [i \in 1..Len(own) |-> own[i].text]

\* C11: selectForChat with no active analysis returns generalLearnings
\* unchanged; with an active analysis it returns at most maxTotal learnings:
\* first the learnings whose tag matches the active analysis's type and
\* 20-character name prefix, in extraction order (as many of them as maxTotal
\* admits), then only generalLearnings entries not already in the result.
C11_ChatTagMatchesFirst ==
    fn.done =>
        IF ~IsSome(fn.activeAnalysis)
        THEN fn.finalLearningsForPrompt = fn.generalRecentLearnings
        ELSE LET result == fn.finalLearningsForPrompt
                 own == TagMatchingLearnings
                 k == Min2(Len(own), fn.maxTotalLearnings)
             IN  /\ Len(result) <= fn.maxTotalLearnings
                 /\ Len(result) >= k
                 /\ SubSeq(result, 1, k) = SubSeq(own, 1, k)
                 /\ \A i \in (k + 1)..Len(result) :
                        /\ \E g \in 1..Len(fn.generalRecentLearnings) :
                               fn.generalRecentLearnings[g] = result[i]
                        /\ \A j \in 1..(i - 1) : result[j] # result[i]

(***************************************************************************)
(* Properties of the Gap Review prompt context (under PromptSpec)          *)
(***************************************************************************)
InSeq(x, list) == \E i \in 1..Len(list) : list[i] = x
Admissible(c, type, targeted) == c.documentType = type /\ c.documentId \in targeted
NoneAdmissible(type, targeted) ==
    \A i \in 1..Len(fn.relevantChunks) : ~Admissible(fn.relevantChunks[i], type, targeted)

\* C12: every chunk in the regulatory context section of the Gap Review
\* prompt is of regulatory type with a targeted regulatory id, every chunk in
\* the company context section is of company type with a targeted company id,
\* a chunk of an untargeted document is in neither section, and a partition
\* with no admissible chunk falls back to the summaries of the targeted
\* regulatory documents, or to the names of the targeted company documents.
C12_PromptChunksTargeted ==
    fn.done =>
        LET ctx == fn.userPromptContext
            reg == fn.targetedRegulatoryContent
            comp == fn.targetedCompanyDocs
        IN  /\ \A i \in 1..Len(ctx.regulatoryChunks) :
                   Admissible(ctx.regulatoryChunks[i], "austrac", reg)
            /\ \A i \in 1..Len(ctx.companyChunks) :
                   Admissible(ctx.companyChunks[i], "company", comp)
            /\ ctx.regulatoryText = joinChunks(ctx.regulatoryChunks, TxtFromRegulatory)
            /\ ctx.companyText = joinChunks(ctx.companyChunks, TxtFromCompany)
            /\ \A i \in 1..Len(fn.relevantChunks) :
                   LET c == fn.relevantChunks[i]
                   IN  (~Admissible(c, "austrac", reg) /\ ~Admissible(c, "company", comp))
                           => ~InSeq(c, ctx.regulatoryChunks) /\ ~InSeq(c, ctx.companyChunks)
            /\ NoneAdmissible("austrac", reg)
                   => /\ ctx.regulatoryHeading = TxtNoRegulatory
                      /\ ctx.regulatoryText = <<>>
                      /\ ctx.summariesOf = reg
            /\ NoneAdmissible("company", comp)
                   => /\ ctx.companyHeading = TxtNoCompany
                      /\ ctx.companyText = <<>>
                      /\ ctx.namesOf = comp

\* a retrieval result with an admissible chunk without text, a chunk of the
\* right type from an untargeted document and a chunk of a targeted id with
\* the wrong type has been composed; the company partition fell back
C12_Witness ==
    /\ fn.done
    /\ Len(fn.relevantChunks) = 2
    /\ \E i, j \in 1..2 :
          /\ Admissible(fn.relevantChunks[i], "austrac", fn.targetedRegulatoryContent)
          /\ fn.relevantChunks[i].text = <<>>
          /\ fn.relevantChunks[j].documentType = "company"
          /\ fn.relevantChunks[j].documentId \notin fn.targetedCompanyDocs
          /\ fn.relevantChunks[j].documentId \in fn.targetedRegulatoryContent
    /\ Len(fn.userPromptContext.regulatoryChunks) = 1
    /\ fn.userPromptContext.regulatoryHeading = TxtRetrievedRegulatory
    /\ fn.userPromptContext.companyHeading = TxtNoCompany

(***************************************************************************)
(* Properties of groupedSuggestions (under ReviewSpec)                     *)
(***************************************************************************)
\* the Gap Review results of a state: the displayed one and the stored ones
GapResults ==
    (IF IsSome(challengeResult) THEN {Val(challengeResult)} ELSE {})
    \cup {savedAnalyses[i].result :
              i \in {k \in 1..Len(savedAnalyses) : savedAnalyses[k].type = "challenge"}}

RECURSIVE SumOfGroupSizes(_, _)
SumOfGroupSizes(grouped, groups) ==
    IF groups = {} THEN 0
    ELSE LET g == CHOOSE x \in groups : TRUE
         IN  Len(grouped[g]) + SumOfGroupSizes(grouped, groups \ {g})

\* the number of entries of group g that carry the id of change
TimesInGroup(result, g, change) ==
    Cardinality({k \in 1..Len(result.groupedSuggestions[g]) :
                    result.groupedSuggestions[g][k].id = change.id})

PartitionsFlatList(result) ==
    LET grouped == result.groupedSuggestions
        changes == result.suggested_changes
    IN  /\ \A c \in 1..Len(changes) :
               /\ groupName(changes[c]) \in DOMAIN grouped
               /\ \A g \in DOMAIN grouped :
                      TimesInGroup(result, g, changes[c])
                          = IF g = groupName(changes[c]) THEN 1 ELSE 0
        /\ \A g \in DOMAIN grouped : \A k \in 1..Len(grouped[g]) :
               \E c \in 1..Len(changes) : changes[c].id = grouped[g][k].id
        /\ SumOfGroupSizes(grouped, DOMAIN grouped) = Len(changes)

\* C13: in every reachable state, for every Gap Review result, displayed or
\* stored, groupedSuggestions partitions the flat suggested_changes list: each
\* suggested change is in exactly one group, the group of its
\* source_document_name or "General" when it has none; no group holds an item
\* that is not in the flat list; the group sizes add up to the list's length.
C13_GroupsPartitionChanges ==
    \A result \in GapResults : PartitionsFlatList(result)

\* a run has stored and displayed a result with two changes in two groups, one
\* of them "General", and feedback has been given on one of its cards
C13_Witness ==
    /\ IsSome(challengeResult)
    /\ Len(savedAnalyses) = 1
    /\ savedAnalyses[1].id >= FirstClock
    /\ LET result == Val(challengeResult)
       IN  /\ Len(result.suggested_changes) = 2
           /\ DOMAIN result.groupedSuggestions = {TxtGeneral, docName("c1")}
           /\ \E c \in 1..2 : result.suggested_changes[c].userFeedback # NoFeedback

\* C14: groupedSuggestions is recomputed whenever suggested_changes changes:
\* after the run's post-processing and after every feedback update, each entry
\* of groupedSuggestions is identical, userFeedback included, to the entry of
\* suggested_changes with the same id, in the displayed result and in every
\* stored Gap Review.
C14_GroupsMirrorChanges ==
    \A result \in GapResults :
        \A g \in DOMAIN result.groupedSuggestions :
            \A k \in 1..Len(result.groupedSuggestions[g]) :
                \A c \in 1..Len(result.suggested_changes) :
                    result.suggested_changes[c].id = result.groupedSuggestions[g][k].id
                        => result.suggested_changes[c] = result.groupedSuggestions[g][k]

(***************************************************************************)
(* Properties of the post-processing of a run (under PostSpec)             *)
(***************************************************************************)
\* the items of the analysis: its suggested changes, then its action plan
ResultItems == fn.result.suggested_changes \o fn.result.action_plan
ChangePrefix == IF fn.kind = "gap" THEN "sc" ELSE "ddsc"
ItemPrefix == IF fn.kind = "gap" THEN "ap" ELSE "ddap"

\* C15: for every generator output, also one that supplies its own ids or
\* repeats them, each suggested change and each action-plan item of the
\* analysis has the locally assigned id (prefix, time, index), and no two
\* items of the analysis share an id.
C15_LocalUniqueIds ==
    fn.done =>
        /\ Len(fn.result.suggested_changes) = Len(fn.parsed.suggested_changes)
        /\ Len(fn.result.action_plan) = Len(fn.parsed.action_plan)
        /\ \A i \in 1..Len(fn.result.suggested_changes) :
               fn.result.suggested_changes[i].id = <<ChangePrefix, fn.now, i - 1>>
        /\ \A i \in 1..Len(fn.result.action_plan) :
               fn.result.action_plan[i].id = <<ItemPrefix, fn.now, i - 1>>
        /\ \A i, j \in 1..Len(ResultItems) :
               i # j => ResultItems[i].id # ResultItems[j].id

\* a Gap Review output whose two changes both came with the id the first
\* change is given locally, and whose two action items came with it too
C15_Witness ==
    /\ fn.done /\ fn.kind = "gap"
    /\ Len(fn.parsed.suggested_changes) = 2 /\ Len(fn.parsed.action_plan) = 2
    /\ \A i \in 1..2 : /\ fn.parsed.suggested_changes[i].id = Some(<<"sc", fn.now, 0>>)
                       /\ fn.parsed.action_plan[i].id = Some(<<"sc", fn.now, 0>>)
    /\ fn.result.suggested_changes[2].id = <<"sc", fn.now, 1>>

\* C16: in every analysis a run produces, every suggested change's priority
\* and every action-plan item's priority_level is High, Medium or Low: a
\* generator value in that set is kept, any other value, a missing one
\* included, becomes Medium.
C16_PrioritiesCoerced ==
    fn.done =>
        /\ \A i \in 1..Len(fn.result.suggested_changes) :
               LET given == fn.parsed.suggested_changes[i].priority
                   kept == fn.result.suggested_changes[i].priority
               IN  /\ kept \in {"High", "Medium", "Low"}
                   /\ kept = IF given \in {"High", "Medium", "Low"} THEN given ELSE "Medium"
        /\ \A i \in 1..Len(fn.result.action_plan) :
               LET given == fn.parsed.action_plan[i].priority_level
                   kept == fn.result.action_plan[i].priority_level
               IN  /\ kept \in {"High", "Medium", "Low"}
                   /\ kept = IF given \in {"High", "Medium", "Low"} THEN given ELSE "Medium"

\* a Deep Dive output with a change without priority, a change with High and
\* an action item with a priority outside the set
C16_Witness ==
    /\ fn.done /\ fn.kind = "deepDive"
    /\ Len(fn.parsed.suggested_changes) = 2 /\ Len(fn.parsed.action_plan) = 1
    /\ fn.parsed.suggested_changes[1].priority = Undef
    /\ fn.parsed.suggested_changes[2].priority = "High"
    /\ fn.parsed.action_plan[1].priority_level = "low"
    /\ fn.result.suggested_changes[1].priority = "Medium"
    /\ fn.result.suggested_changes[2].priority = "High"
    /\ fn.result.action_plan[1].priority_level = "Medium"

(***************************************************************************)
(* Properties of the pre-steps of a Gap Review run (under SummarySpec)     *)
(***************************************************************************)
\* a run past its summaries holds one summary per targeted regulatory input
SummariesComplete(run) ==
    /\ run.pending = {}
    /\ {u.id : u \in run.summaries} = run.targetedRegulatoryContent
    /\ \A u \in run.summaries : u.summary \in {TxtSummaryFailed, TxtSummaryText}
    /\ \A u, w \in run.summaries : u.id = w.id => u = w

\* what the steps of a run's pre-steps do: a failed ingestion, a failed
\* summary call, a retrieval that returned
LocalFailureSteps ==
    /\ \A i \in 1..Len(runs) :
           (runs[i].kind = "gap" /\ IngestReturn(i, "failed"))
               => /\ Len(runs') = Len(runs)
                  /\ runs'[i].pc \in {"ingest", "summaries"}
                  /\ runs'[i].pending = runs[i].targetedRegulatoryContent
                  /\ fetchStatus' = fetchStatus /\ error' = error
    /\ \A i \in 1..Len(runs) : \A update \in DOMAIN userAustracContent :
           GapSummaryReturn(i, update, "throws")
               => /\ Len(runs') = Len(runs)
                  /\ fetchStatus' = fetchStatus /\ error' = error
                  /\ runs'[i].summaries
                         = runs[i].summaries
                               \cup {withSummary(regulatoryInput(update), TxtSummaryFailed)}
                  /\ runs'[i].pending = runs[i].pending \ {update}
                  /\ runs'[i].pc = IF runs'[i].pending = {} THEN "retrieve"
                                   ELSE "summaries"
    /\ \A i \in 1..Len(runs) :
           GapRetrieveReturn(i, "ok")
               => Len(runs') = Len(runs) /\ runs'[i].pc = "generate"

\* C17: in a Gap Review run a failed ingestion of a document and a failed
\* summary call do not end the run and do not set the Error state; the failed
\* summary is replaced by the placeholder, the summaries that were generated
\* are kept and the calls still pending stay pending; with the last summary
\* the run goes on to the retrieval call and from there to the generation
\* call, holding one summary per targeted regulatory input.
C17_LocalFailuresRecovered ==
    /\ [](\A i \in 1..Len(runs) :
              (runs[i].kind = "gap" /\ runs[i].pc \in {"retrieve", "generate"})
                  => SummariesComplete(runs[i]))
    /\ [][LocalFailureSteps]_vars

\* a run over both regulatory inputs whose ingestion of the company document
\* failed, whose summary of r1 failed and whose summary of r2 was generated
\* waits for the generation call, the status still Loading
C17_Witness ==
    /\ Len(runs) = 1 /\ ops = 1
    /\ runs[1].kind = "gap" /\ runs[1].pc = "generate"
    /\ runs[1].targetedRegulatoryContent = TwoRegulatoryIds
    /\ ~internalCorpus["c1"].isProcessedForRag
    /\ runs[1].summaries = {withSummary(regulatoryInput("r1"), TxtSummaryFailed),
                            withSummary(regulatoryInput("r2"), TxtSummaryText)}
    /\ fetchStatus = LOADING /\ error = None

(***************************************************************************)
(* Properties of a run's completion (under Spec)                           *)
(***************************************************************************)
\* the state a successful Gap Review run is said to leave
StoredFirstAndShown ==
    /\ Len(savedAnalyses') = Len(savedAnalyses) + 1
    /\ Tail(savedAnalyses') = savedAnalyses
    /\ savedAnalyses'[1].type = "challenge"
    /\ activeAnalysisId' = savedAnalyses'[1].id
    /\ challengeResult' = Some(savedAnalyses'[1].result)
    /\ fetchStatus' = SUCCESS
    /\ selectedRegulatoryIdsForGapReview' = {}
    /\ selectedCompanyDocIdsForGapReview' = {}

\* C18: when a Gap Review run succeeds, right after its completion the store
\* holds exactly one new analysis of type Gap Review, placed first, the active
\* pointer is that analysis's id, the displayed Gap Review result is its
\* stored result, the status is Success and both selection lists are empty.
C18_SuccessStoredActiveShown ==
    [][\A i \in 1..Len(runs) : \A parsed \in GenOutputs : \A now \in 1..MaxClock :
           GapGenerateReturn(i, "ok", parsed, now) => StoredFirstAndShown]_vars

\* a run of the kind is suspended at an await
InFlight(kind) == \E i \in 1..Len(runs) : runs[i].kind = kind

\* a run that passed validation has started: the step added it to runs
GapRunStarted ==
    \E targetRegulatoryIds \in SUBSET RegulatoryDocIds :
        \E companyDocIds \in SUBSET CompanyDocIds :
            /\ generateGapReview(targetRegulatoryIds, companyDocIds)
            /\ Len(runs') = Len(runs) + 1
DeepDiveRunStarted ==
    \E docId \in CompanyDocIds : generateDeepDive(docId) /\ Len(runs') = Len(runs) + 1

\* run i has completed in this step
Completed(i) == runs' = removeAt(runs, i)

\* the status steps of the runs, a run starting from one of the states in from
StatusSteps(from) ==
    /\ GapRunStarted => fetchStatus \in from /\ fetchStatus' = LOADING
    /\ DeepDiveRunStarted => deepDiveFetchStatus \in from /\ deepDiveFetchStatus' = LOADING
    /\ \A i \in 1..Len(runs) :
           Completed(i) =>
               LET kind == runs[i].kind
                   status == IF kind = "gap" THEN fetchStatus' ELSE deepDiveFetchStatus'
               IN  /\ status \in {SUCCESS, ERROR}
                   /\ status = SUCCESS
                          => /\ Len(savedAnalyses') = Len(savedAnalyses) + 1
                             /\ Tail(savedAnalyses') = savedAnalyses
                             /\ savedAnalyses'[1].type
                                    = IF kind = "gap" THEN "challenge" ELSE "deepDive"
RunsComplete == \A kind \in {"gap", "deepDive"} : InFlight(kind) ~> ~InFlight(kind)

C20_EmptyMeansKeyAbsent ==
    Settled =>
        /\ \A key \in JsonKeys :
               /\ fn.mem[key] = <<>> => fn.storage[key] = None
               /\ fn.storage[key] # Some(stringify(<<>>))
        /\ fn.mem.activeAnalysisId = NullId => fn.storage.activeAnalysisId = None

(***************************************************************************)
(* Properties of the stored analyses (under Spec)                          *)
(***************************************************************************)
DocumentTexts == {textOf(id) : id \in DOMAIN internalCorpus \cup DOMAIN userAustracContent}
ContentFields == {"rawContent", "textContent"}
CarriesNoContent(entry) == DOMAIN entry \cap ContentFields = {}
QuotesNoDocument(text) == \A k \in 1..Len(text) : text[k] \notin DocumentTexts

\* C21: no analysis in the store carries the text of an input document: its
\* input snapshots (regulatory inputs used, company documents used, selected
\* document, summarized regulatory inputs) hold ids, names or titles, types
\* and file metadata only, and its stored prompts quote no document.
C21_NoDocumentContentStored ==
    \A i \in 1..Len(savedAnalyses) :
        LET sa == savedAnalyses[i]
        IN  /\ \A d \in sa.austracInputsUsedSnapshot : CarriesNoContent(d)
            /\ \A d \in sa.companyDocumentsUsedSnapshot : CarriesNoContent(d)
            /\ IsSome(sa.selectedDocumentSnapshot)
                   => CarriesNoContent(Val(sa.selectedDocumentSnapshot))
            /\ \A u \in sa.summarizedAustracUpdatesSnapshot : CarriesNoContent(u)
            /\ QuotesNoDocument(sa.userPrompt)

\* what a step may do to an analysis that stays in the store
SameAnalysis(new, old) == new = old
Renamed(new, old) == [new EXCEPT !.name = old.name] = old
FeedbackMerged(new, old) ==
    [new EXCEPT !.result = old.result, !.timestamp = old.timestamp] = old
\* the fields of a stored analysis that no operation is said to change
CreationValues(sa) ==
    [id |-> sa.id, type |-> sa.type,
     austracInputsUsedSnapshot |-> sa.austracInputsUsedSnapshot,
     companyDocumentsUsedSnapshot |-> sa.companyDocumentsUsedSnapshot,
     selectedDocumentSnapshot |-> sa.selectedDocumentSnapshot,
     summarizedAustracUpdatesSnapshot |-> sa.summarizedAustracUpdatesSnapshot,
     learningsAppliedToThisAnalysis |-> sa.learningsAppliedToThisAnalysis,
     systemPrompt |-> sa.systemPrompt, userPrompt |-> sa.userPrompt,
     groundingMetadata |-> sa.groundingMetadata]
AddedByRun(j) == j = 1 /\ Tail(savedAnalyses') = savedAnalyses

StoredAnalysesKeepCreationValues ==
    \A j \in 1..Len(savedAnalyses') :
        \/ AddedByRun(j)
        \/ \E i \in 1..Len(savedAnalyses) :
              /\ CreationValues(savedAnalyses'[j]) = CreationValues(savedAnalyses[i])
              /\ \/ SameAnalysis(savedAnalyses'[j], savedAnalyses[i])
                 \/ Renamed(savedAnalyses'[j], savedAnalyses[i])
                 \/ FeedbackMerged(savedAnalyses'[j], savedAnalyses[i])

RenameChangesNameOnly ==
    \A id \in storedIds : \A newName \in Names :
        ConfirmRename(id, newName)
            => /\ Len(savedAnalyses') = Len(savedAnalyses)
               /\ \A i \in 1..Len(savedAnalyses) :
                      /\ savedAnalyses'[i].name
                             = IF savedAnalyses[i].id = id THEN newName
                               ELSE savedAnalyses[i].name
                      /\ Renamed(savedAnalyses'[i], savedAnalyses[i])
                      /\ savedAnalyses'[i].timestamp = savedAnalyses[i].timestamp
                      /\ savedAnalyses'[i].result = savedAnalyses[i].result

\* C22: an analysis that stays in the store keeps its id, type, input
\* snapshots, applied learnings, prompts and grounding metadata in every
\* step; a step leaves it as it is, changes its name only, or changes its
\* result and timestamp only; a rename changes the name of the analyses with
\* the given id and leaves every timestamp, every result and the order of
\* the store as they were.
C22_OnlyRenameMergeDelete ==
    [][StoredAnalysesKeepCreationValues /\ RenameChangesNameOnly]_vars

\* a store of two analyses, the older one renamed and the newer one not
C22_Witness ==
    /\ Len(savedAnalyses) = 2
    /\ savedAnalyses[1].id # savedAnalyses[2].id
    /\ savedAnalyses[1].name \notin Names
    /\ savedAnalyses[2].name \in Names
    /\ ops = 2

(***************************************************************************)
(* Properties of the Deep Dive prompt (under CrossSpec)                    *)
(***************************************************************************)
OfTarget(c) == c.documentId = fn.targetDocId
AllOfTarget == \A i \in 1..Len(fn.companyDocChunks) : OfTarget(fn.companyDocChunks[i])

\* C23: no chunk of the target document is quoted in the cross-document
\* context of the Deep Dive prompt, the context is the text of the chunks of
\* the other documents in retrieval order, and when every retrieved chunk
\* belongs to the target document (or none was retrieved) the prompt says
\* that no other relevant company documents were found and quotes nothing.
C23_NoSelfCrossReference ==
    fn.done =>
        LET ctx == fn.companyContext
        IN  /\ \A i \in 1..Len(ctx.chunks) : ~OfTarget(ctx.chunks[i])
            /\ ctx.chunks = SelectSeq(fn.companyDocChunks, LAMBDA c : ~OfTarget(c))
            /\ ctx.text = joinDeepDiveChunks(ctx.chunks)
            /\ AllOfTarget
                   => /\ ctx.heading = TxtNoOtherCompanyDocs
                      /\ ctx.text = <<>>
            /\ ~AllOfTarget => ctx.heading = TxtRetrievedInternal

\* a retrieval that returned a chunk of the target and a chunk of another
\* document has been composed, and one that returned only chunks of the
\* target fell back
C23_Witness ==
    /\ fn.done
    /\ Len(fn.companyDocChunks) = 2
    /\ OfTarget(fn.companyDocChunks[1])
    /\ ~OfTarget(fn.companyDocChunks[2])
    /\ Len(fn.companyContext.chunks) = 1

(***************************************************************************)
(* Properties of the repair of the generator text (under RepairSpec)       *)
(***************************************************************************)
\* C24: the repair leaves every well-formed JSON text as it is, whatever its
\* string values hold (braces, words, commas) and also when a "timeline"
\* member is followed by a "High", "Medium" or "Low" string.
C24_RepairKeepsWellFormedText == fn.done => fn.jsonStr = fn.text

(***************************************************************************)
(* Properties of the learnings cache and of startup (under PersistSpec)    *)
(***************************************************************************)
extractAll(store) == extractLearningsFromFeedback(store, Some(MAX_CACHED_LEARNINGS))
storedList(key) ==
    IF IsSome(fn.storage[key]) /\ Val(fn.storage[key]).parses
    THEN parse(Val(fn.storage[key])) ELSE <<>>
keyHolds(key) == IsSome(fn.storage[key]) => Val(fn.storage[key]).parses

\* C25: once startup has settled and after every change of the store and
\* its persistence effect, the learnings in memory and the learnings under
\* the storage key are the learnings extracted from the store, capped at 10,
\* and are empty when the store is empty.
C25_LearningsRecomputedFromStore ==
    LET expected == IF fn.mem.savedAnalyses # <<>> THEN extractAll(fn.mem.savedAnalyses)
                    ELSE <<>>
    IN  Settled =>
            /\ fn.mem.chatbotLearnings = expected
            /\ keyHolds("chatbotLearnings")
            /\ storedList("chatbotLearnings") = expected

\* what the page was opened with
Launched == Val(fn.launchedWith)
ValidList(text) == text.parses
ValidAnalysesText(text) ==
    text.parses /\ \A i \in 1..Len(parse(text)) : validAnalysis(parse(text)[i])
SortedNewestFirst(list) ==
    \A i, j \in 1..Len(list) : i < j => list[i].timestamp >= list[j].timestamp
SameAnalyses(list, other) ==
    /\ Len(list) = Len(other)
    /\ \A a \in itemsOf(list) \cup itemsOf(other) :
           Cardinality({i \in 1..Len(list) : list[i] = a})
               = Cardinality({i \in 1..Len(other) : other[i] = a})
StartupSettled == Settled /\ IsSome(fn.launchedWith)

C27_DisplayedGapResultIsActive ==
    GapResultShown =>
        \E i \in 1..Len(savedAnalyses) :
            /\ savedAnalyses[i].id = activeAnalysisId
            /\ savedAnalyses[i].type = "challenge"
            /\ savedAnalyses[i].result = Val(challengeResult)

(***************************************************************************)
(* Properties of the draft modal (under Spec)                              *)
(***************************************************************************)
\* the stored feedback of the suggested changes with the given id in the
\* stored analyses with the given id
feedbackOf(changes, itemId) ==
    {changes[k].userFeedback : k \in {n \in 1..Len(changes) : changes[n].id = itemId}}
storedChangeFeedback(list, analysisId, itemId) ==
    UNION {feedbackOf(list[i].result.suggested_changes, itemId) :
               i \in {n \in 1..Len(list) : list[n].id = analysisId}}
statusAfterSave(userFeedback) ==
    IF userFeedback.status # Undef THEN userFeedback.status ELSE "Actioned"

SaveKeepsStatusAndNotes ==
    \A editableDraft \in DraftInputs : \A now \in 1..MaxClock :
        SaveFinalVersion(editableDraft, now)
            => LET itemId == Val(currentDraftingChange).id
                   before == storedChangeFeedback(savedAnalyses, activeAnalysisId, itemId)
                   after == storedChangeFeedback(savedAnalyses', activeAnalysisId, itemId)
               IN  /\ {fb.notes : fb \in after} = {fb.notes : fb \in before}
                   /\ {fb.status : fb \in after} = {statusAfterSave(fb) : fb \in before}

\* C28: saving a final adopted text through the draft modal leaves the
\* stored notes of the suggestion as they were and leaves its stored status
\* as it was, except that a suggestion without a status becomes Actioned.
C28_SaveKeepsStatusAndNotes == [][SaveKeepsStatusAndNotes]_vars

(***************************************************************************)
(* Properties of the store under updates and renders (under RenderSpec)    *)
(***************************************************************************)
LatestIds == {fn.latest.savedAnalyses[i].id : i \in 1..Len(fn.latest.savedAnalyses)}
AddedByReturningRun(id) == fn'.awaiting = fn.awaiting - 1 /\ id = fn'.clock

\* C29: in every step an analysis of the store stays in the store unless the
\* step is the deletion of that analysis, and an analysis that is not in the
\* store does not come into it unless the step is the completion of the run
\* that created it.
C29_NoAnalysisLostOrResurrected ==
    [][/\ \A id \in LatestIds : id \in LatestIds' \/ RenderDeleteAnalysis(id)
       /\ \A id \in LatestIds' \ LatestIds : AddedByReturningRun(id)]_vars

\* C26: in every state in which the updates have been rendered and the
\* effects have run, the active-analysis pointer is null or the id of an
\* analysis in the store.
C26_ActivePointerInStore ==
    fn.rendered = fn.latest
        => fn.latest.activeAnalysisId = NullId \/ fn.latest.activeAnalysisId \in LatestIds

====
